---- MODULE Spec2Model ----
(***************************************************************************)
(* Verification model of the sv2-ui monitoring dashboard.                  *)
(*                                                                         *)
(* Spec      the client-side history hooks: useHashrateHistory in its two  *)
(*           versions (the ref-sampling hook of hooks/useHashrateHistory.ts*)
(*           and the de-duplicating hook built around appendSample) and    *)
(*           useShareHistory.  One hook instance is followed per behaviour *)
(*           (variable hook); every instance owns its state, so instances  *)
(*           do not interact.                                              *)
(***************************************************************************)
EXTENDS Integers, Sequences, FiniteSets, TLC

(***************************************************************************)
(* Program constants                                                       *)
(***************************************************************************)
MAX_HISTORY_POINTS == 60

SAMPLE_INTERVAL_MS == 5000

\* SAMPLE_INTERVAL_MS - 250 in appendSample
DEDUPE_SLACK_MS == 250

(***************************************************************************)
(* Bounds of the model                                                     *)
(***************************************************************************)
\* Date.now() at the moment the component mounts (any value >= one interval)
T0 == 10000

\* samples already in the buffer in the long-running start state
WarmLen == 59

\* how far the clock is followed past the start state, in sample intervals
Horizon == 2

\* largest share counter the API is made to report
MaxShares == 1

\* longest list of extended channels, and of SV1 workers, in an API response
MaxChannels == 3

\* longest list of standard channels in an API response
MaxStandard == 2

\* most SV1 workers the API is made to report to the pages
MaxWorkers == 1

\* requests of /server/channels followed
MaxRequests == 4

\* page loads followed
MaxStartups == 2

\* answered health checks followed per service
MaxChecks == 2

\* most workers a poll of /sv1/clients reports to the worker table
MaxListed == 16

(***************************************************************************)
(* Values.  A JavaScript value is a one-field record, so that numbers and  *)
(* the non-numbers undefined, null and NaN can be compared.                *)
(***************************************************************************)
Num(n) == [num |-> n]
Undef == [undefined |-> TRUE]
Null == [null |-> TRUE]
NaN == [nan |-> TRUE]

\* hashrate values a render can pass to useHashrateHistory: number | undefined
Hashrates == {Num(0), Num(7)}
HashrateInputs == Hashrates \cup {Undef, NaN}

\* accepted / submitted counters a render can pass to useShareHistory
ShareInputs == {Num(n) : n \in 0..MaxShares} \cup {Undef}

\* amounts by which the wall clock moves between two events
ClockSteps == {SAMPLE_INTERVAL_MS - DEDUPE_SLACK_MS, SAMPLE_INTERVAL_MS}

HookKinds == {"ref", "dedupe", "share"}

VARIABLES
  hook,               \* which hook this instance is
  phase,              \* "init" (rendered, effects not yet run), "mounted", "unmounted"
  now,                \* Date.now()
  timerActive,        \* the setInterval registration exists
  nextFire,           \* earliest time of the next interval callback
  horizonEnd,         \* the clock is not followed past this time
  currentHashrate,    \* the hook's argument at the last render
  hashrateRef,        \* hashrateRef.current        (ref hook)
  latestHashrateRef,  \* latestHashrateRef.current  (dedupe hook)
  lastSampleTime,     \* lastSampleTime.current     (dedupe hook, share hook)
  accepted,           \* useShareHistory arguments at the last render
  submitted,
  lastAccepted,       \* lastAccepted.current / lastSubmitted.current
  lastSubmitted,
  history,            \* the history state: the buffer the hook returns
  samples,            \* every point ever appended, in order (history variable)
  ev                  \* the event that led to this state

hookVars == <<hook, phase, now, timerActive, nextFire, horizonEnd, currentHashrate,
              hashrateRef, latestHashrateRef, lastSampleTime, accepted, submitted,
              lastAccepted, lastSubmitted, history, samples, ev>>

VARIABLES
  serverChannels,     \* usePoolData(): the upstream channel response, or undefined
  allClients,         \* sv1Data?.items || []
  shareStats,         \* UnifiedDashboard: useMemo(shareStats)
  stats,              \* PoolStats: useMemo(stats)
  sv1TotalHashrate,   \* UnifiedDashboard: useMemo(sv1TotalHashrate)
  reordered           \* a poll has returned the same entries in another order

dashVars == <<serverChannels, allClients, shareStats, stats, sv1TotalHashrate, reordered>>

VARIABLES
  qstate,             \* per query: idle, fetching, retryWait, success or error
  failureCount,       \* per query: the retryer's failureCount
  qerror,             \* per query: the Error thrown by apiFetch, or null
  lastStatus          \* per query: the HTTP status of the last response received

pollVars == <<qstate, failureCount, qerror, lastStatus>>

VARIABLES
  search,             \* window.location.search: mode, jdc_url, translator_url
  env,                \* import.meta.env: VITE_JDC_URL, VITE_TRANSLATOR_URL
  requestService,     \* the service argument of the last apiFetch
  baseUrl             \* the base URL the last apiFetch has used

urlVars == <<search, env, requestService, baseUrl>>

VARIABLES
  requestUrl,         \* apiFetch: the URL handed to fetch(), base and endpoint
  response,           \* apiFetch: what fetch() came back with
  outcome             \* apiFetch: the value returned or the exception thrown

fetchVars == <<requestUrl, response, outcome>>

VARIABLES
  page,               \* the page on screen: UnifiedDashboard or PoolStats
  poolLoading,        \* usePoolData().isLoading
  poolError,          \* usePoolData().isError
  poolFetching,       \* usePoolData().isFetching
  sv1Fetching,        \* useSv1ClientsData().isFetching
  hasGlobal,          \* usePoolData().global is an object (not undefined)
  hasServerChannels,  \* usePoolData().serverChannels is an object
  hasClientChannels,  \* usePoolData().clientChannels is an object
  hasPoolChannels,    \* usePoolData().channels is an object
  clientCount,        \* allClients.length
  manualRetrying,     \* useState(false): a manual refresh is under way
  banners,            \* the ConnectionAlert elements of the last render
  regions             \* the main regions of the last render: skeleton, error panel, data view

pageVars == <<page, poolLoading, poolError, poolFetching, sv1Fetching, hasGlobal,
              hasServerChannels, hasClientChannels, hasPoolChannels, clientCount,
              manualRetrying, banners, regions>>

VARIABLES
  endpointUp          \* the monitoring endpoint answers 2xx with a JSON body

liveVars == <<endpointUp>>

VARIABLES
  observedOffset,     \* useServerChannels(offset, limit): the offset of the last render
  nextRequest,        \* number of the next request of apiFetch('/server/channels?...')
  inFlight,           \* requests sent and not yet answered: [id, offset]
  awaited,            \* per query key: the request its retryer waits for, 0 when idle
  cached,             \* per query key: the request whose payload is the query's data, 0 for none
  lastResolved        \* the request answered last, 0 before the first answer

overlapVars == <<observedOffset, nextRequest, inFlight, awaited, cached, lastResolved>>

VARIABLES
  uiPhase,            \* useUiConfig: "unloaded" before the hook is mounted, then "mounted"
  config,             \* useState: the in-memory UiConfig
  storage,            \* window.localStorage item 'sv2-ui-config': absent, text, or JSON
  effectPending,      \* the [config] effects have not yet run for the current config
  cssBrand,           \* the colour the brand CSS variables derive from, or none
  startups            \* how many times the page has been loaded

configVars == <<uiPhase, config, storage, effectPending, cssBrand, startups>>

VARIABLES
  shellKind,          \* which Shell is rendered: "sidebar" (Shell.tsx 45-) or "header" (267-)
  health,             \* per service: the result of its health query
  connectionState,    \* the state prop handed to ConnectionStatus
  connectionLabel     \* the label prop handed to ConnectionStatus

shellVars == <<shellKind, health, connectionState, connectionLabel>>

VARIABLES
  poolData,           \* what usePoolData() returned: isJdMode, global, clientChannels, serverChannels
  sv1Data,            \* what useSv1ClientsData() returned: undefined or the page of workers
  totalHashrate,      \* UnifiedDashboard: totalHashrate of the last render
  bestDiff            \* UnifiedDashboard: bestDiff of the last render

metricVars == <<poolData, sv1Data, totalHashrate, bestDiff>>

VARIABLES
  secondary,          \* config.secondary of useUiConfig: undefined, '' or an HSL triplet
  cssPending,         \* the effects of useUiConfig have not run for this config yet
  observed,           \* the secondary captured by the MutationObserver, undefined without one
  isDark,             \* the root element carries the class 'dark'
  rootStyle,          \* the inline style of the root element: per variable its value or undefined
  painted             \* history: the variables setProperty was called on, with the theme of the call

cssVars == <<secondary, cssPending, observed, isDark, rootStyle, painted>>

VARIABLES
  currentPage,        \* UnifiedDashboard: currentPage
  searchTerm,         \* UnifiedDashboard: searchTerm
  listed,             \* allClients.length: the workers of the last poll
  matching            \* how many of them match the search term "rig"

pagerVars == <<currentPage, searchTerm, listed, matching>>

\* ---- frame conditions: the variables of the other parts ----
\* the state of the parts other than the history hooks
nonHookVars ==
  <<dashVars, pollVars, urlVars, fetchVars, pageVars, liveVars, overlapVars, configVars, shellVars, metricVars, cssVars, pagerVars>>

\* the state of the parts other than the dashboard's derived totals
nonDashVars ==
  <<hookVars, pollVars, urlVars, fetchVars, pageVars, liveVars, overlapVars, configVars, shellVars, metricVars, cssVars, pagerVars>>

\* the state of the parts other than the polling queries
nonPollVars ==
  <<hookVars, dashVars, urlVars, fetchVars, pageVars, liveVars, overlapVars, configVars, shellVars, metricVars, cssVars, pagerVars>>

\* the state of the parts other than the endpoint resolution
nonUrlVars ==
  <<hookVars, dashVars, pollVars, fetchVars, pageVars, liveVars, overlapVars, configVars, shellVars, metricVars, cssVars, pagerVars>>

\* the state of the parts other than apiFetch
nonFetchVars ==
  <<hookVars, dashVars, pollVars, urlVars, pageVars, liveVars, overlapVars, configVars, shellVars, metricVars, cssVars, pagerVars>>

\* the state of the parts other than the pages' connection banners
nonPageVars ==
  <<hookVars, dashVars, pollVars, urlVars, fetchVars, liveVars, overlapVars, configVars, shellVars, metricVars, cssVars, pagerVars>>

\* the state of the parts other than the endpoint's condition
nonLiveVars ==
  <<hookVars, dashVars, pollVars, urlVars, fetchVars, pageVars, overlapVars, configVars, shellVars, metricVars, cssVars, pagerVars>>

\* the state of the parts other than the overlapping requests
nonOverlapVars ==
  <<hookVars, dashVars, pollVars, urlVars, fetchVars, pageVars, liveVars, configVars, shellVars, metricVars, cssVars, pagerVars>>

\* the state of the parts other than the UI preferences
nonConfigVars ==
  <<hookVars, dashVars, pollVars, urlVars, fetchVars, pageVars, liveVars, overlapVars, shellVars, metricVars, cssVars, pagerVars>>

\* the state of the parts other than the shell's connection state
nonShellVars ==
  <<hookVars, dashVars, pollVars, urlVars, fetchVars, pageVars, liveVars, overlapVars, configVars, metricVars, cssVars, pagerVars>>

\* the state of the parts other than the dashboard's topology metrics
nonMetricVars ==
  <<hookVars, dashVars, pollVars, urlVars, fetchVars, pageVars, liveVars, overlapVars, configVars, shellVars, cssVars, pagerVars>>

\* the state of the parts other than the root element's style
nonCssVars ==
  <<hookVars, dashVars, pollVars, urlVars, fetchVars, pageVars, liveVars, overlapVars, configVars, shellVars, metricVars, pagerVars>>

\* the state of the parts other than the worker table's pages
nonPagerVars ==
  <<hookVars, dashVars, pollVars, urlVars, fetchVars, pageVars, liveVars, overlapVars, configVars, shellVars, metricVars, cssVars>>

\* the variables a call of apiFetch does not touch
nonUrlFetchVars ==
  <<hookVars, dashVars, pollVars, pageVars, liveVars, overlapVars, configVars, shellVars, metricVars, cssVars, pagerVars>>

vars == <<hookVars, nonHookVars>>
\* ---- end of the frame conditions ----

(***************************************************************************)
(* Helpers shared by the hooks                                             *)
(***************************************************************************)
\* Array.prototype.slice(-n) for n > 0
SliceLast(s, n) == IF Len(s) <= n THEN s ELSE SubSeq(s, Len(s) - n + 1, Len(s))

\* toLocaleTimeString('en-US', {hour, minute, hour12: false}): minute of the day
FormatMinute(ts) == (ts \div 60000) % 1440

\* formatSampleTime: hour, minute and second: second of the day
formatSampleTime(ts) == (ts \div 1000) % 86400

Max(a, b) == IF a >= b THEN a ELSE b

\* setInterval: the callback runs no earlier than one interval after it was
\* armed.  After a callback that ran at time t and had been due at time due,
\* the next one is due one interval after t, or at the next point after t of
\* the drift-free grid due + k * interval: both are what browsers do.
NextDue(due, t) ==
  { t + SAMPLE_INTERVAL_MS,
    due + SAMPLE_INTERVAL_MS * (((t - due) \div SAMPLE_INTERVAL_MS) + 1) }

(***************************************************************************)
(* useHashrateHistory, src/hooks/useHashrateHistory.ts (the ref hook)      *)
(***************************************************************************)
\* mutant: the cap is never applied
setHistoryRef_NoCap(prev, newPoint) == Append(prev, newPoint)

\* mutant: the new point is put in front of the buffer
setHistoryRef_Prepend(prev, newPoint) ==
  LET updated == <<newPoint>> \o prev
  IN  IF Len(updated) > MAX_HISTORY_POINTS
        THEN SliceLast(updated, MAX_HISTORY_POINTS)
        ELSE updated

\* mutant: over the cap the newest entries are dropped instead of the oldest
setHistoryRef_KeepOldest(prev, newPoint) ==
  LET updated == Append(prev, newPoint)
  IN  IF Len(updated) > MAX_HISTORY_POINTS
        THEN SubSeq(updated, 1, MAX_HISTORY_POINTS)
        ELSE updated

\* the updater passed to setHistory in sample()
setHistoryRef(prev, newPoint) ==
  LET updated == Append(prev, newPoint)
  IN  IF Len(updated) > MAX_HISTORY_POINTS
        THEN SliceLast(updated, MAX_HISTORY_POINTS)
        ELSE updated

\* mutant: sample() has lost its guard
sampleSkips_Never(value) == FALSE

\* does sample() return before it records anything
sampleSkips(value) == value = Undef \/ value = Null

samplePoint(value, t) == [time |-> FormatMinute(t), timestamp |-> t, hashrate |-> value]

\* sample(): the history after the call, given the ref's value and the clock
sample(value, t, prev) ==
  IF sampleSkips(value) THEN prev ELSE setHistoryRef(prev, samplePoint(value, t))

\* mutant: the ref is not kept in sync with the argument
SyncRef_Stale(v) ==
  /\ hook = "ref" /\ phase = "mounted"
  /\ v # currentHashrate
  /\ currentHashrate' = v
  /\ ev' = "value"
  /\ UNCHANGED <<hook, phase, now, timerActive, nextFire, horizonEnd, hashrateRef,
                 latestHashrateRef, lastSampleTime, accepted, submitted, lastAccepted,
                 lastSubmitted, history, samples>>
  /\ UNCHANGED nonHookVars

\* mutant: the effect samples whenever the argument changes
SyncRef_Samples(v) ==
  /\ hook = "ref" /\ phase = "mounted"
  /\ v # currentHashrate
  /\ currentHashrate' = v
  /\ hashrateRef' = v
  /\ history' = sample(v, now, history)
  /\ samples' = IF sampleSkips(v) THEN samples ELSE Append(samples, samplePoint(v, now))
  /\ ev' = "value"
  /\ UNCHANGED <<hook, phase, now, timerActive, nextFire, horizonEnd, latestHashrateRef,
                 lastSampleTime, accepted, submitted, lastAccepted, lastSubmitted>>
  /\ UNCHANGED nonHookVars

\* first effect: hashrateRef.current = currentHashrate, on every change of the argument
SyncRef(v) ==
  /\ hook = "ref" /\ phase = "mounted"
  /\ v # currentHashrate
  /\ currentHashrate' = v
  /\ hashrateRef' = v
  /\ ev' = "value"
  /\ UNCHANGED <<hook, phase, now, timerActive, nextFire, horizonEnd, latestHashrateRef,
                 lastSampleTime, accepted, submitted, lastAccepted, lastSubmitted,
                 history, samples>>
  /\ UNCHANGED nonHookVars

\* the effects at mount: the ref is synced, sample() runs once, the interval is armed
MountRef ==
  /\ hook = "ref" /\ phase = "init"
  /\ phase' = "mounted"
  /\ hashrateRef' = currentHashrate
  /\ history' = sample(hashrateRef', now, history)
  /\ samples' = IF sampleSkips(hashrateRef') THEN samples
                ELSE Append(samples, samplePoint(hashrateRef', now))
  /\ timerActive' = TRUE
  /\ nextFire' = now + SAMPLE_INTERVAL_MS
  /\ ev' = "mount"
  /\ UNCHANGED <<hook, now, horizonEnd, currentHashrate, latestHashrateRef, lastSampleTime,
                 accepted, submitted, lastAccepted, lastSubmitted>>
  /\ UNCHANGED nonHookVars

\* the interval callback: sample()
TickRef ==
  /\ hook = "ref" /\ timerActive /\ now >= nextFire
  /\ history' = sample(hashrateRef, now, history)
  /\ samples' = IF sampleSkips(hashrateRef) THEN samples
                ELSE Append(samples, samplePoint(hashrateRef, now))
  /\ nextFire' \in NextDue(nextFire, now)
  /\ ev' = "tick"
  /\ UNCHANGED <<hook, phase, now, timerActive, horizonEnd, currentHashrate, hashrateRef,
                 latestHashrateRef, lastSampleTime, accepted, submitted, lastAccepted,
                 lastSubmitted>>
  /\ UNCHANGED nonHookVars

(***************************************************************************)
(* useHashrateHistory built around appendSample (the dedupe hook)          *)
(***************************************************************************)
\* the updater passed to setHistory in appendSample
setHistoryDedupe(prev, newPoint) ==
  LET updated == Append(prev, newPoint)
  IN  IF Len(updated) > MAX_HISTORY_POINTS
        THEN SliceLast(updated, MAX_HISTORY_POINTS)
        ELSE updated

dedupePoint(hashrate, t) ==
  [time |-> formatSampleTime(t), timestamp |-> t, hashrate |-> hashrate]

\* mutant: appendSample has lost its guard
appendSampleSkips_Never(timestamp, last) == FALSE

\* appendSample returns early: a point was recorded less than 4750 ms ago
appendSampleSkips(timestamp, last) ==
  last # 0 /\ timestamp - last < SAMPLE_INTERVAL_MS - DEDUPE_SLACK_MS

\* appendSample(timestamp, hashrate): the refs and state after the call
appendSample(timestamp, hashrate, last, prev, all) ==
  IF appendSampleSkips(timestamp, last)
    THEN [lastSampleTime |-> last, history |-> prev, samples |-> all]
    ELSE [lastSampleTime |-> timestamp,
          history |-> setHistoryDedupe(prev, dedupePoint(hashrate, timestamp)),
          samples |-> Append(all, dedupePoint(hashrate, timestamp))]

\* the value effect treats undefined, null and NaN as "no value"
valueMissing(v) == v = Undef \/ v = Null \/ v = NaN

\* the value effect: the refs and state after it ran with argument v at time t
valueEffect(v, t, last, prev, all) ==
  IF valueMissing(v)
    THEN [latestHashrateRef |-> Null, lastSampleTime |-> last, history |-> prev,
          samples |-> all]
    ELSE LET r == IF t - last >= SAMPLE_INTERVAL_MS
                    THEN appendSample(t, v, last, prev, all)
                    ELSE [lastSampleTime |-> last, history |-> prev, samples |-> all]
         IN  [latestHashrateRef |-> v, lastSampleTime |-> r.lastSampleTime,
              history |-> r.history, samples |-> r.samples]

\* the effects at mount: the value effect runs, the interval is armed
MountDedupe ==
  /\ hook = "dedupe" /\ phase = "init"
  /\ phase' = "mounted"
  /\ LET r == valueEffect(currentHashrate, now, lastSampleTime, history, samples)
     IN  /\ latestHashrateRef' = r.latestHashrateRef
         /\ lastSampleTime' = r.lastSampleTime
         /\ history' = r.history
         /\ samples' = r.samples
  /\ timerActive' = TRUE
  /\ nextFire' = now + SAMPLE_INTERVAL_MS
  /\ ev' = "mount"
  /\ UNCHANGED <<hook, now, horizonEnd, currentHashrate, hashrateRef, accepted, submitted,
                 lastAccepted, lastSubmitted>>
  /\ UNCHANGED nonHookVars

\* a render with a changed argument: the value effect runs
ValueEffect(v) ==
  /\ hook = "dedupe" /\ phase = "mounted"
  /\ v # currentHashrate
  /\ currentHashrate' = v
  /\ LET r == valueEffect(v, now, lastSampleTime, history, samples)
     IN  /\ latestHashrateRef' = r.latestHashrateRef
         /\ lastSampleTime' = r.lastSampleTime
         /\ history' = r.history
         /\ samples' = r.samples
  /\ ev' = "value"
  /\ UNCHANGED <<hook, phase, now, timerActive, nextFire, horizonEnd, hashrateRef,
                 accepted, submitted, lastAccepted, lastSubmitted>>
  /\ UNCHANGED nonHookVars

\* the interval callback
TickDedupe ==
  /\ hook = "dedupe" /\ timerActive /\ now >= nextFire
  /\ LET r == IF latestHashrateRef = Null
                THEN [lastSampleTime |-> lastSampleTime, history |-> history,
                      samples |-> samples]
                ELSE appendSample(now, latestHashrateRef, lastSampleTime, history, samples)
     IN  /\ lastSampleTime' = r.lastSampleTime
         /\ history' = r.history
         /\ samples' = r.samples
  /\ nextFire' \in NextDue(nextFire, now)
  /\ ev' = "tick"
  /\ UNCHANGED <<hook, phase, now, timerActive, horizonEnd, currentHashrate, hashrateRef,
                 latestHashrateRef, accepted, submitted, lastAccepted, lastSubmitted>>
  /\ UNCHANGED nonHookVars

(***************************************************************************)
(* useShareHistory                                                         *)
(***************************************************************************)
\* the updater passed to setHistory in the share effect
setHistoryShare(prev, newPoint) ==
  LET updated == Append(prev, newPoint)
  IN  IF Len(updated) > MAX_HISTORY_POINTS
        THEN SliceLast(updated, MAX_HISTORY_POINTS)
        ELSE updated

\* the delta of a counter: Math.max(0, value - last)
shareDelta(value, last) == Max(0, value - last)

sharePoint(t, deltaAccepted, deltaSubmitted) ==
  [time |-> FormatMinute(t), timestamp |-> t,
   accepted |-> deltaAccepted, submitted |-> deltaSubmitted]

\* the share effect returns before it samples
shareEffectSkips(a, s, t, last) ==
  \/ a = Undef \/ s = Undef
  \/ t - last < SAMPLE_INTERVAL_MS

\* mutant: only samples with submitted shares are recorded
shareRecords_OnlyActivity(prev, deltaSubmitted) == deltaSubmitted > 0

\* the share effect records the sample it took
shareRecords(prev, deltaSubmitted) == Len(prev) > 0 \/ deltaSubmitted > 0

\* the share effect: refs and state after it ran with arguments a, s at time t
shareEffect(a, s, t, st) ==
  IF shareEffectSkips(a, s, t, st.lastSampleTime) THEN st
  ELSE LET deltaAccepted == shareDelta(a.num, st.lastAccepted)
           deltaSubmitted == shareDelta(s.num, st.lastSubmitted)
           pt == sharePoint(t, deltaAccepted, deltaSubmitted)
           rec == shareRecords(st.history, deltaSubmitted)
       IN  [lastSampleTime |-> t,
            lastAccepted |-> a.num,
            lastSubmitted |-> s.num,
            history |-> IF rec THEN setHistoryShare(st.history, pt) ELSE st.history,
            samples |-> IF rec THEN Append(st.samples, pt) ELSE st.samples]

\* The effect's dependencies are [accepted, submitted, history.length]: when
\* the effect changed the length of the history it runs once more after the
\* re-render, at the same clock reading.
shareEffectRun(a, s, t, st) ==
  LET st1 == shareEffect(a, s, t, st)
  IN  IF Len(st1.history) # Len(st.history) THEN shareEffect(a, s, t, st1) ELSE st1

shareState ==
  [lastSampleTime |-> lastSampleTime, lastAccepted |-> lastAccepted,
   lastSubmitted |-> lastSubmitted, history |-> history, samples |-> samples]

\* the effect at mount
MountShare ==
  /\ hook = "share" /\ phase = "init"
  /\ phase' = "mounted"
  /\ LET r == shareEffectRun(accepted, submitted, now, shareState)
     IN  /\ lastSampleTime' = r.lastSampleTime
         /\ lastAccepted' = r.lastAccepted
         /\ lastSubmitted' = r.lastSubmitted
         /\ history' = r.history
         /\ samples' = r.samples
  /\ ev' = "mount"
  /\ UNCHANGED <<hook, now, timerActive, nextFire, horizonEnd, currentHashrate,
                 hashrateRef, latestHashrateRef, accepted, submitted>>
  /\ UNCHANGED nonHookVars

\* a render with changed counters: the effect runs
ShareEffect(a, s) ==
  /\ hook = "share" /\ phase = "mounted"
  /\ <<a, s>> # <<accepted, submitted>>
  /\ accepted' = a
  /\ submitted' = s
  /\ LET r == shareEffectRun(a, s, now, shareState)
     IN  /\ lastSampleTime' = r.lastSampleTime
         /\ lastAccepted' = r.lastAccepted
         /\ lastSubmitted' = r.lastSubmitted
         /\ history' = r.history
         /\ samples' = r.samples
  /\ ev' = "value"
  /\ UNCHANGED <<hook, phase, now, timerActive, nextFire, horizonEnd, currentHashrate,
                 hashrateRef, latestHashrateRef>>
  /\ UNCHANGED nonHookVars

(***************************************************************************)
(* Unmount and the clock                                                   *)
(***************************************************************************)
\* mutant: the cleanup leaves the interval armed
clearInterval_Missing(active) == active

\* the effect cleanup: clearInterval(id)
clearInterval(active) == FALSE

\* the component unmounts: effect cleanups run, no render follows
Unmount ==
  /\ phase = "mounted"
  /\ phase' = "unmounted"
  /\ timerActive' = clearInterval(timerActive)
  /\ ev' = "unmount"
  /\ UNCHANGED <<hook, now, nextFire, horizonEnd, currentHashrate, hashrateRef,
                 latestHashrateRef, lastSampleTime, accepted, submitted, lastAccepted,
                 lastSubmitted, history, samples>>
  /\ UNCHANGED nonHookVars

\* wall-clock time passes
Advance(d) ==
  /\ phase # "init"
  /\ now + d <= horizonEnd
  /\ now' = now + d
  /\ ev' = "clock"
  /\ UNCHANGED <<hook, phase, timerActive, nextFire, horizonEnd, currentHashrate,
                 hashrateRef, latestHashrateRef, lastSampleTime, accepted, submitted,
                 lastAccepted, lastSubmitted, history, samples>>
  /\ UNCHANGED nonHookVars

(***************************************************************************)
(* The dashboard pages: totals derived from the polled channel lists       *)
(* (UnifiedDashboard.shareStats, sv1TotalHashrate; PoolStats.stats)        *)
(***************************************************************************)
\* A JavaScript number is an IEEE-754 binary64.  The numbers of this part are
\* hi * 2^53 + lo with small hi and lo: below 2^53 every integer is a double,
\* from 2^53 on only the multiples of the binade's spacing are.
Dbl(h, l) == [hi |-> h, lo |-> l]

\* spacing of the doubles in the binade of hi * 2^53 (1 below 2^53)
Spacing(h) ==
  IF h = 0 THEN 1 ELSE IF h < 2 THEN 2 ELSE IF h < 4 THEN 4 ELSE IF h < 8 THEN 8 ELSE 16

\* round l to a multiple of u, ties to the even multiple (round-half-to-even)
RoundTiesToEven(l, u) ==
  LET q == l \div u
      r == l % u
  IN  IF 2 * r < u THEN q * u
      ELSE IF 2 * r > u THEN (q + 1) * u
      ELSE IF q % 2 = 0 THEN q * u ELSE (q + 1) * u

\* a + b on numbers: the exact sum rounded to the nearest double
jsAdd(a, b) ==
  LET h == a.hi + b.hi
      l == a.lo + b.lo
  IN  Dbl(h, RoundTiesToEven(l, Spacing(h)))

jsLess(a, b) == a.hi < b.hi \/ (a.hi = b.hi /\ a.lo < b.lo)

\* Math.max(a, b)
jsMax(a, b) == IF jsLess(a, b) THEN b ELSE a

Zero == Dbl(0, 0)

\* value || 0 on number | null
OrZero(v) == IF v = Null \/ v = Zero THEN Zero ELSE v

\* list.map((ch) => ch[field])
Column(list, field) == [k \in 1..Len(list) |-> list[k][field]]

\* mutant: the accumulator is overwritten instead of added to
Sum_Overwrite(values) == IF Len(values) = 0 THEN Zero ELSE values[Len(values)]

\* values.reduce((sum, x) => sum + x, 0): a left fold from 0
RECURSIVE Sum(_)
Sum(values) ==
  IF Len(values) = 0 THEN Zero
  ELSE jsAdd(Sum(SubSeq(values, 1, Len(values) - 1)), values[Len(values)])

\* list.reduce((sum, ch) => sum + ch[field], 0)
SumField(list, field) == Sum(Column(list, field))

\* Math.max(...values) over the values and start
RECURSIVE MaxOf(_, _)
MaxOf(values, start) ==
  IF Len(values) = 0 THEN start
  ELSE jsMax(MaxOf(SubSeq(values, 1, Len(values) - 1), start), values[Len(values)])

\* Math.max(...list.map((ch) => ch[field]), start)
MaxField(list, field, start) == MaxOf(Column(list, field), start)

\* clients.map((c) => c.hashrate || 0)
HashratesOrZero(clients) == [k \in 1..Len(clients) |-> OrZero(clients[k].hashrate)]

\* list.length ? Math.max(...list.map(ch => ch.last_share_sequence_number)) : 0
LatestSequence(list) ==
  IF Len(list) # 0 THEN MaxField(SubSeq(list, 2, Len(list)), "last_share_sequence_number",
                                 list[1].last_share_sequence_number)
  ELSE Zero

\* UnifiedDashboard: shareStats
shareStatsOf(channels) ==
  IF channels = Undef THEN [accepted |-> Zero, submitted |-> Zero]
  ELSE LET extAccepted == SumField(channels.extended_channels, "shares_accepted")
           stdAccepted == SumField(channels.standard_channels, "shares_accepted")
           extLatest == LatestSequence(channels.extended_channels)
           stdLatest == LatestSequence(channels.standard_channels)
       IN  [accepted |-> jsAdd(extAccepted, stdAccepted),
            submitted |-> jsMax(extLatest, stdLatest)]

\* PoolStats: stats
statsOf(poolChannels) ==
  IF poolChannels = Undef
    THEN [sharesAccepted |-> Zero, sharesSubmitted |-> Zero, shareWorkSum |-> Zero,
          bestDiff |-> Zero, extendedCount |-> 0, standardCount |-> 0]
  ELSE LET extAccepted == SumField(poolChannels.extended_channels, "shares_accepted")
           stdAccepted == SumField(poolChannels.standard_channels, "shares_accepted")
           extLatest == LatestSequence(poolChannels.extended_channels)
           stdLatest == LatestSequence(poolChannels.standard_channels)
           extWork == SumField(poolChannels.extended_channels, "share_work_sum")
           stdWork == SumField(poolChannels.standard_channels, "share_work_sum")
           extBest == MaxField(poolChannels.extended_channels, "best_diff", Zero)
           stdBest == MaxField(poolChannels.standard_channels, "best_diff", Zero)
       IN  [sharesAccepted |-> jsAdd(extAccepted, stdAccepted),
            sharesSubmitted |-> jsMax(extLatest, stdLatest),
            shareWorkSum |-> jsAdd(extWork, stdWork),
            bestDiff |-> jsMax(extBest, stdBest),
            extendedCount |-> poolChannels.total_extended,
            standardCount |-> poolChannels.total_standard]

\* the text of a number with two decimals: whole.frac
Fixed2(hundredths) == [whole |-> hundredths \div 100, frac |-> hundredths % 100]

\* ((accepted / submitted) * 100).toFixed(2) for counters below 2^53: the
\* quotient in hundredths of a percent, rounded to the nearest, halves up
toFixed2Percent(acc, sub) ==
  Fixed2((2 * 10000 * acc.lo + sub.lo) \div (2 * sub.lo))

\* submitted > 0 ? ((accepted / submitted) * 100).toFixed(2) : fallback
acceptanceRateOf(acc, sub, fallback) ==
  IF jsLess(Zero, sub) THEN toFixed2Percent(acc, sub) ELSE fallback

\* UnifiedDashboard: acceptanceRate
dashboardAcceptanceRate(share) == acceptanceRateOf(share.accepted, share.submitted, Fixed2(0))

\* PoolStats: acceptanceRate
poolStatsAcceptanceRate(st) ==
  acceptanceRateOf(st.sharesAccepted, st.sharesSubmitted, Fixed2(10000))

\* UnifiedDashboard: sv1TotalHashrate
sv1TotalHashrateOf(clients) == Sum(HashratesOrZero(clients))

\* the channels the API is made to report: counters are integers, the work
\* sum and the difficulty are floats that can be as large as 2^53
ChannelKinds ==
  { [shares_accepted |-> Dbl(0, 1), last_share_sequence_number |-> Dbl(0, 1),
     share_work_sum |-> Dbl(0, 1), best_diff |-> Dbl(0, 1)],
    [shares_accepted |-> Dbl(0, 2), last_share_sequence_number |-> Dbl(0, 3),
     share_work_sum |-> Dbl(1, 0), best_diff |-> Dbl(0, 5)],
    [shares_accepted |-> Dbl(0, 0), last_share_sequence_number |-> Dbl(0, 0),
     share_work_sum |-> Dbl(0, 3), best_diff |-> Dbl(1, 0)] }

\* the SV1 workers the API is made to report: hashrate is number | null
ClientKinds == { [hashrate |-> Null], [hashrate |-> Dbl(0, 1)], [hashrate |-> Dbl(1, 0)] }

SeqsUpTo(S, n) == UNION { [1..k -> S] : k \in 0..n }

ChannelResponses ==
  { [extended_channels |-> e, standard_channels |-> s,
     total_extended |-> Len(e), total_standard |-> Len(s)] :
      e \in SeqsUpTo(ChannelKinds, MaxChannels), s \in SeqsUpTo(ChannelKinds, MaxStandard) }

\* the list with the entries at positions i and i + 1 exchanged
SwapAt(list, i) ==
  [k \in 1..Len(list) |-> IF k = i THEN list[i + 1] ELSE IF k = i + 1 THEN list[i] ELSE list[k]]

\* the memoised values follow the data they depend on
Derived(channels, clients) ==
  /\ shareStats' = shareStatsOf(channels)
  /\ stats' = statsOf(channels)
  /\ sv1TotalHashrate' = sv1TotalHashrateOf(clients)

\* a poll of /server/channels returns the same channels, two extended ones exchanged
ReorderExtended(i) ==
  /\ serverChannels # Undef
  /\ i \in 1..(Len(serverChannels.extended_channels) - 1)
  /\ serverChannels' = [serverChannels EXCEPT
                          !.extended_channels = SwapAt(serverChannels.extended_channels, i)]
  /\ Derived(serverChannels', allClients)
  /\ reordered' = TRUE
  /\ UNCHANGED allClients
  /\ UNCHANGED nonDashVars

\* a poll of /server/channels returns the same channels, two standard ones exchanged
ReorderStandard(i) ==
  /\ serverChannels # Undef
  /\ i \in 1..(Len(serverChannels.standard_channels) - 1)
  /\ serverChannels' = [serverChannels EXCEPT
                          !.standard_channels = SwapAt(serverChannels.standard_channels, i)]
  /\ Derived(serverChannels', allClients)
  /\ reordered' = TRUE
  /\ UNCHANGED allClients
  /\ UNCHANGED nonDashVars

\* a poll of /sv1/clients returns the same workers, two of them exchanged
ReorderClients(i) ==
  /\ i \in 1..(Len(allClients) - 1)
  /\ allClients' = SwapAt(allClients, i)
  /\ Derived(serverChannels, allClients')
  /\ reordered' = TRUE
  /\ UNCHANGED serverChannels
  /\ UNCHANGED nonDashVars

\* the first render with data: any channel response of the bounded shapes
\* before the workers arrive, or any list of workers without upstream channels
DashStart ==
  /\ \/ serverChannels \in ChannelResponses /\ allClients = <<>>
     \/ serverChannels = Undef /\ allClients \in SeqsUpTo(ClientKinds, MaxChannels)
  /\ shareStats = shareStatsOf(serverChannels)
  /\ stats = statsOf(serverChannels)
  /\ sv1TotalHashrate = sv1TotalHashrateOf(allClients)
  /\ reordered = FALSE

\* no data has arrived
DashIdle ==
  /\ serverChannels = Undef
  /\ allClients = <<>>
  /\ shareStats = shareStatsOf(Undef)
  /\ stats = statsOf(Undef)
  /\ sv1TotalHashrate = Zero
  /\ reordered = FALSE

(***************************************************************************)
(* useApi: endpoint resolution, apiFetch and the polling queries           *)
(***************************************************************************)
Str(s) == [str |-> s]

EXTERNAL_ENDPOINTS ==
  [jdc |-> Str("http://localhost:9091/api/v1"),
   translator |-> Str("http://localhost:9092/api/v1")]

\* a || b on string | null
OrElse(a, b) == IF a = Null \/ a = Str("") THEN b ELSE a

\* getApiBase(service) under the query string params
getApiBase(service, params) ==
  LET mode == params.mode
  IN  IF mode = Str("miner-stack") /\ service # Undef
        THEN LET jdcUrl == OrElse(params.jdc_url, EXTERNAL_ENDPOINTS.jdc)
                 translatorUrl == OrElse(params.translator_url, EXTERNAL_ENDPOINTS.translator)
             IN  IF service = Str("jdc") THEN jdcUrl ELSE translatorUrl
      ELSE Str("/api/v1")

Services == {Undef, Str("jdc"), Str("translator")}

\* apiFetch(endpoint, service): the part that picks the base URL of the request
ApiFetchBase(service) ==
  /\ requestService' = service
  /\ baseUrl' = getApiBase(service, search)
  /\ UNCHANGED <<search, env>>
  /\ UNCHANGED nonUrlVars

\* the query strings and build environments the page is opened with
ParamValues(url) == {Null, Str(""), url}

SearchParams ==
  [mode : {Null, Str("miner-stack"), Str("single")},
   jdc_url : ParamValues(Str("http://jdc.example:9091/api/v1")),
   translator_url : ParamValues(Str("http://tproxy.example:9092/api/v1"))]

Environments ==
  [VITE_JDC_URL : {Undef, Str("http://jdc.env:9091")},
   VITE_TRANSLATOR_URL : {Undef, Str("http://tproxy.env:9092")}]

UrlStart ==
  /\ search \in SearchParams
  /\ env \in Environments
  /\ requestService = Null
  /\ baseUrl = Null

\* the page opened without a query string and without environment settings
UrlIdle ==
  /\ search = [mode |-> Null, jdc_url |-> Null, translator_url |-> Null]
  /\ env = [VITE_JDC_URL |-> Undef, VITE_TRANSLATOR_URL |-> Undef]
  /\ requestService = Null
  /\ baseUrl = Null

\* what the monitoring API answers: ok, or a status with a body
\* (json = the body parses; error = its "error" field, Undef when it has none)
Responses ==
  { [ok |-> TRUE, status |-> 200, json |-> TRUE, error |-> Undef],
    [ok |-> FALSE, status |-> 404, json |-> TRUE, error |-> Str("Server monitoring not available")],
    [ok |-> FALSE, status |-> 404, json |-> TRUE, error |-> Undef],
    [ok |-> FALSE, status |-> 404, json |-> FALSE, error |-> Undef],
    [ok |-> FALSE, status |-> 500, json |-> TRUE, error |-> Str("Internal error")] }

\* "HTTP " + status
HttpMessage(status) ==
  IF status = 404 THEN Str("HTTP 404") ELSE IF status = 500 THEN Str("HTTP 500") ELSE Str("HTTP")

\* apiFetch: the message of the Error thrown for a response that is not ok
apiFetchMessage(resp) ==
  LET errorData == IF resp.json THEN [error |-> resp.error] ELSE [error |-> Str("Unknown error")]
  IN  IF errorData.error = Undef \/ errorData.error = Str("") THEN HttpMessage(resp.status)
      ELSE errorData.error

\* fetch() rejects: no response at all (network failure, CORS, DNS)
NetworkError == [rejects |-> "TypeError"]

\* every shape of answer apiFetch can meet: a status, a body that parses or
\* not, and the body's "error" field
FetchResponses ==
  [ok : {FALSE}, status : {404, 500}, json : {TRUE},
   error : {Undef, Str(""), Str("Server monitoring not available"), Str("Internal error")}]
    \cup [ok : {FALSE}, status : {404, 500}, json : {FALSE}, error : {Undef}]
    \cup [ok : {TRUE}, status : {200}, json : BOOLEAN, error : {Undef}]
    \cup {NetworkError}

\* what a call of apiFetch ends with
Returned == [threw |-> FALSE, name |-> "", message |-> Null]
Thrown(errorName, errorMessage) == [threw |-> TRUE, name |-> errorName, message |-> errorMessage]

\* apiFetch(endpoint, service) once fetch() has settled with resp
apiFetch(resp) ==
  IF resp = NetworkError THEN Thrown("TypeError", Str("Failed to fetch"))
  ELSE IF ~resp.ok THEN Thrown("Error", apiFetchMessage(resp))
  ELSE IF resp.json THEN Returned
  ELSE Thrown("SyntaxError", Str("Unexpected token < in JSON at position 0"))

Endpoints == {"/health", "/global", "/server"}

\* one call of apiFetch from start to end
ApiFetch(endpoint, service, resp) ==
  /\ requestService' = service
  /\ baseUrl' = getApiBase(service, search)
  /\ requestUrl' = <<baseUrl', endpoint>>
  /\ response' = resp
  /\ outcome' = apiFetch(resp)
  /\ UNCHANGED <<search, env>>
  /\ UNCHANGED nonUrlFetchVars

\* no request has been made
FetchIdle ==
  /\ requestUrl = Null
  /\ response = Null
  /\ outcome = Null

\* message.includes('not available')
IncludesNotAvailable(message) ==
  message \in {Str("Server monitoring not available")}

\* queryClient: defaultOptions.queries.retry
DEFAULT_RETRY == 3

\* the queries: optional resources with a retry callback (useClients has the
\* callback of useServer and useSv1Clients word for word), and the global
\* statistics with the client's default retry
OptionalResources == {"server", "sv1Clients"}
Resources == OptionalResources \cup {"global"}

\* useServer / useClients / useSv1Clients: retry(failureCount, error)
retryOptional(count, message) ==
  IF IncludesNotAvailable(message) THEN FALSE ELSE count < 3

\* the retryer's shouldRetry for query r
shouldRetry(r, count, message) ==
  IF r \in OptionalResources THEN retryOptional(count, message)
  ELSE count < DEFAULT_RETRY

\* the component using the query mounts: the first fetch starts
MountQuery(r) ==
  /\ qstate[r] = "idle"
  /\ qstate' = [qstate EXCEPT ![r] = "fetching"]
  /\ failureCount' = [failureCount EXCEPT ![r] = 0]
  /\ UNCHANGED <<qerror, lastStatus>>
  /\ UNCHANGED nonPollVars

\* the response to the request in flight arrives
Respond(r, resp) ==
  /\ qstate[r] = "fetching"
  /\ lastStatus' = [lastStatus EXCEPT ![r] = resp.status]
  /\ IF ~apiFetch(resp).threw
       THEN /\ qstate' = [qstate EXCEPT ![r] = "success"]
            /\ failureCount' = [failureCount EXCEPT ![r] = 0]
            /\ qerror' = [qerror EXCEPT ![r] = Null]
       ELSE LET message == apiFetch(resp).message
            IN  IF shouldRetry(r, failureCount[r], message)
                  THEN /\ qstate' = [qstate EXCEPT ![r] = "retryWait"]
                       /\ failureCount' = [failureCount EXCEPT ![r] = @ + 1]
                       /\ UNCHANGED qerror
                  ELSE /\ qstate' = [qstate EXCEPT ![r] = "error"]
                       /\ failureCount' = [failureCount EXCEPT ![r] = @ + 1]
                       /\ qerror' = [qerror EXCEPT ![r] = message]
  /\ UNCHANGED nonPollVars

\* the retry delay has passed: the request is sent again
RetryFire(r) ==
  /\ qstate[r] = "retryWait"
  /\ qstate' = [qstate EXCEPT ![r] = "fetching"]
  /\ UNCHANGED <<failureCount, qerror, lastStatus>>
  /\ UNCHANGED nonPollVars

\* mutant: the interval stops once the query has failed
RefetchInterval_OnlyAfterSuccess(r) ==
  /\ qstate[r] = "success"
  /\ qstate' = [qstate EXCEPT ![r] = "fetching"]
  /\ failureCount' = [failureCount EXCEPT ![r] = 0]
  /\ UNCHANGED <<qerror, lastStatus>>
  /\ UNCHANGED nonPollVars

\* refetchInterval: the interval fires on a settled query and fetches again
RefetchInterval(r) ==
  /\ qstate[r] \in {"success", "error"}
  /\ qstate' = [qstate EXCEPT ![r] = "fetching"]
  /\ failureCount' = [failureCount EXCEPT ![r] = 0]
  /\ UNCHANGED <<qerror, lastStatus>>
  /\ UNCHANGED nonPollVars

(***************************************************************************)
(* Recovery of a polled query once the endpoint is back                    *)
(***************************************************************************)
\* the queries followed through an outage: the global statistics (default
\* retry) and the server summary (retry callback)
LiveResources == {"global", "server"}

\* what the endpoint can answer in its current condition
AnswersNow == IF endpointUp THEN {resp \in Responses : resp.ok /\ resp.json} ELSE Responses

\* the endpoint answers the request in flight
EndpointAnswers(r) == \E resp \in AnswersNow : Respond(r, resp)

\* Refresh / Reconnect: refetchAll() and the other refetch() calls; the button
\* is disabled while the query is fetching (isRetrying)
ManualRefetch(r) ==
  /\ qstate[r] \in {"success", "error"}
  /\ qstate' = [qstate EXCEPT ![r] = "fetching"]
  /\ failureCount' = [failureCount EXCEPT ![r] = 0]
  /\ UNCHANGED <<qerror, lastStatus>>
  /\ UNCHANGED nonPollVars

\* the service goes down, or comes back
EndpointChanges ==
  /\ endpointUp' = ~endpointUp
  /\ UNCHANGED nonLiveVars

LiveStart == endpointUp \in BOOLEAN

LiveIdle == endpointUp = TRUE

\* no query is mounted
PollIdle ==
  /\ qstate = [r \in Resources |-> "idle"]
  /\ failureCount = [r \in Resources |-> 0]
  /\ qerror = [r \in Resources |-> Null]
  /\ lastStatus = [r \in Resources |-> 0]

(***************************************************************************)
(* The pages' connection banners (UnifiedDashboard, PoolStats)             *)
(***************************************************************************)
Pages == {"UnifiedDashboard", "PoolStats"}

\* UnifiedDashboard: hasTelemetryData; PoolStats: hasPoolData
hasTelemetryData(pg, global, serverCh, clientCh, poolCh, count) ==
  IF pg = "UnifiedDashboard" THEN global \/ serverCh \/ clientCh \/ count > 0
  ELSE global \/ poolCh

\* UnifiedDashboard: isRetrying; PoolStats: retrying
isRetrying(pg, manual, fetching, sv1) ==
  IF pg = "UnifiedDashboard" THEN manual \/ fetching \/ sv1
  ELSE manual \/ fetching

\* the retry handler the page hands to the banner
retryHandler(pg) == IF pg = "UnifiedDashboard" THEN "handleRefreshAll" ELSE "handleRetry"

\* <ConnectionAlert tone="loading" ... />: no onRetry
loadingBanner == [tone |-> "loading", onRetry |-> "", retrying |-> FALSE]

\* mutant: the error banner is left out while the query is loading
errorBanners_NotWhileLoading(pg, loading, error, hasData, retrying) ==
  IF error /\ ~loading
    THEN {[tone |-> IF hasData THEN "warning" ELSE "error",
           onRetry |-> retryHandler(pg), retrying |-> retrying]}
  ELSE {}

\* {poolError && <ConnectionAlert tone={hasTelemetryData ? 'warning' : 'error'} ... />}
errorBanners(pg, loading, error, hasData, retrying) ==
  IF error
    THEN {[tone |-> IF hasData THEN "warning" ELSE "error",
           onRetry |-> retryHandler(pg), retrying |-> retrying]}
  ELSE {}

\* the ConnectionAlert elements of a render
renderBanners(pg, loading, error, hasData, retrying) ==
  (IF loading /\ ~hasData THEN {loadingBanner} ELSE {})
    \cup errorBanners(pg, loading, error, hasData, retrying)

\* canRenderData
canRenderData(loading, error, hasData) == ~loading /\ (~error \/ hasData)

\* showHardErrorState
showHardErrorState(error, hasData) == error /\ ~hasData

\* the main regions of a render: {loading && !hasData && <LoadingState />},
\* {showHardErrorState && ...}, {canRenderData && ...}
renderRegions(loading, error, hasData) ==
  (IF loading /\ ~hasData THEN {"skeleton"} ELSE {})
    \cup (IF showHardErrorState(error, hasData) THEN {"hardError"} ELSE {})
    \cup (IF canRenderData(loading, error, hasData) THEN {"data"} ELSE {})

\* the page renders from its current hook results
Render ==
  /\ banners' = renderBanners(page', poolLoading', poolError',
                  hasTelemetryData(page', hasGlobal', hasServerChannels', hasClientChannels',
                                   hasPoolChannels', clientCount'),
                  isRetrying(page', manualRetrying', poolFetching', sv1Fetching'))
  /\ regions' = renderRegions(poolLoading', poolError',
                  hasTelemetryData(page', hasGlobal', hasServerChannels', hasClientChannels',
                                   hasPoolChannels', clientCount'))

\* the pool telemetry query changes its flags
PoolQueryUpdate(loading, error, fetching) ==
  /\ page # "none"
  /\ poolLoading' = loading
  /\ poolError' = error
  /\ poolFetching' = fetching
  /\ UNCHANGED <<page, sv1Fetching, hasGlobal, hasServerChannels, hasClientChannels,
                 hasPoolChannels, clientCount, manualRetrying>>
  /\ Render
  /\ UNCHANGED nonPageVars

\* telemetry data arrives or is dropped from the cache
TelemetryUpdate(global, serverCh, clientCh, poolCh, count, sv1) ==
  /\ page # "none"
  /\ hasGlobal' = global
  /\ hasServerChannels' = serverCh
  /\ hasClientChannels' = clientCh
  /\ hasPoolChannels' = poolCh
  /\ clientCount' = count
  /\ sv1Fetching' = sv1
  /\ UNCHANGED <<page, poolLoading, poolError, poolFetching, manualRetrying>>
  /\ Render
  /\ UNCHANGED nonPageVars

\* handleRefreshAll / handleRetry: setManualRetrying(true), refetch under way
HandleRetry ==
  /\ page # "none"
  /\ ~isRetrying(page, manualRetrying, poolFetching, sv1Fetching)
  /\ manualRetrying' = TRUE
  /\ UNCHANGED <<page, poolLoading, poolError, poolFetching, sv1Fetching, hasGlobal,
                 hasServerChannels, hasClientChannels, hasPoolChannels, clientCount>>
  /\ Render
  /\ UNCHANGED nonPageVars

\* the refetches of the handler have settled: setManualRetrying(false)
RetrySettled ==
  /\ manualRetrying
  /\ manualRetrying' = FALSE
  /\ UNCHANGED <<page, poolLoading, poolError, poolFetching, sv1Fetching, hasGlobal,
                 hasServerChannels, hasClientChannels, hasPoolChannels, clientCount>>
  /\ Render
  /\ UNCHANGED nonPageVars

\* the first render of a page: the query is loading and nothing is cached
PageStart ==
  /\ page \in Pages
  /\ poolLoading = TRUE
  /\ poolError = FALSE
  /\ poolFetching = TRUE
  /\ sv1Fetching = TRUE
  /\ hasGlobal = FALSE
  /\ hasServerChannels = FALSE
  /\ hasClientChannels = FALSE
  /\ hasPoolChannels = FALSE
  /\ clientCount = 0
  /\ manualRetrying = FALSE
  /\ banners = {loadingBanner}
  /\ regions = {"skeleton"}

\* no page is on screen
PageIdle ==
  /\ page = "none"
  /\ poolLoading = FALSE
  /\ poolError = FALSE
  /\ poolFetching = FALSE
  /\ sv1Fetching = FALSE
  /\ hasGlobal = FALSE
  /\ hasServerChannels = FALSE
  /\ hasClientChannels = FALSE
  /\ hasPoolChannels = FALSE
  /\ clientCount = 0
  /\ manualRetrying = FALSE
  /\ banners = {}
  /\ regions = {}

(***************************************************************************)
(* Overlapping requests of useServerChannels                               *)
(***************************************************************************)
\* the offsets the table pages through (limit 25): one query key each
Offsets == {0, 25}

\* the payload the component is given: the data of the query it observes
shownPayload == cached[observedOffset]

\* queryFn: apiFetch is called and fetch() is sent for the query key
SendRequest(offset) ==
  /\ inFlight' = inFlight \cup {[id |-> nextRequest, offset |-> offset]}
  /\ awaited' = [awaited EXCEPT ![offset] = nextRequest]
  /\ nextRequest' = nextRequest + 1

\* mount or refetchInterval: the observed query fetches unless it is fetching
PollChannels ==
  /\ nextRequest <= MaxRequests
  /\ awaited[observedOffset] = 0
  /\ SendRequest(observedOffset)
  /\ UNCHANGED <<observedOffset, cached, lastResolved>>
  /\ UNCHANGED nonOverlapVars

\* the component renders with another offset: the observer moves to that
\* query key, which fetches unless it is fetching; the request of the key
\* left behind is not aborted (apiFetch never takes the AbortSignal)
SetOffset(offset) ==
  /\ offset # observedOffset
  /\ observedOffset' = offset
  /\ IF awaited[offset] = 0 /\ nextRequest <= MaxRequests
       THEN SendRequest(offset)
       ELSE UNCHANGED <<inFlight, awaited, nextRequest>>
  /\ UNCHANGED <<cached, lastResolved>>
  /\ UNCHANGED nonOverlapVars

\* mutant: the answer is written to every query key
writeCache_EveryKey(req) == [k \in Offsets |-> req.id]

\* the answer goes to the query of the request's own key, when that query
\* still waits for it
writeCache(req) ==
  IF awaited[req.offset] = req.id THEN [cached EXCEPT ![req.offset] = req.id] ELSE cached

\* a request is answered (in any order) with a payload
ChannelsResolve(req) ==
  /\ req \in inFlight
  /\ inFlight' = inFlight \ {req}
  /\ cached' = writeCache(req)
  /\ awaited' = IF awaited[req.offset] = req.id THEN [awaited EXCEPT ![req.offset] = 0]
                 ELSE awaited
  /\ lastResolved' = req.id
  /\ UNCHANGED <<observedOffset, nextRequest>>
  /\ UNCHANGED nonOverlapVars

\* the table is not mounted
OverlapIdle ==
  /\ observedOffset = 0
  /\ nextRequest = 1
  /\ inFlight = {}
  /\ awaited = [k \in Offsets |-> 0]
  /\ cached = [k \in Offsets |-> 0]
  /\ lastResolved = 0

(***************************************************************************)
(* useUiConfig: the UI preferences and local storage                       *)
(***************************************************************************)
ConfigKeys == {"secondary", "customLogo", "appName"}

DEFAULT_CONFIG == [secondary |-> Undef, customLogo |-> Undef]

\* a JSON text is modelled by the object it denotes: its keys and values
JsonOf(object) == [json |-> object]

\* the item is absent from local storage
NoItem == Null

\* an item that is not JSON (written by something else)
CorruptItem == [text |-> "not json"]

\* an item holding the empty string
EmptyItem == [text |-> ""]

\* an item holding the JSON text null
NullItem == [jsonNull |-> TRUE]

\* JSON.stringify(config): keys whose value is undefined are left out
stringify(cfg) ==
  JsonOf({<<k, cfg[k]>> : k \in {key \in DOMAIN cfg : cfg[key] # Undef}})

\* parsed[key] of JSON.parse(raw): undefined for a key the text does not have
parsedField(raw, key) ==
  IF \E kv \in raw.json : kv[1] = key
    THEN (CHOOSE kv \in raw.json : kv[1] = key)[2]
  ELSE Undef

\* mutant: the stored value is returned as it is
OrUndefined_Keep(v) == v

\* value || undefined
OrUndefined(v) == IF v = Undef \/ v = Null \/ v = Str("") THEN Undef ELSE v

\* the try block of loadConfig: what it returns, or that it threw.  An empty
\* item is falsy like an absent one; JSON.parse throws on text that is not
\* JSON, and reading a property of the parsed value null throws as well.
loadConfigTry(raw) ==
  IF raw = NoItem \/ raw = EmptyItem THEN [threw |-> FALSE, value |-> DEFAULT_CONFIG]
  ELSE IF raw = CorruptItem \/ raw = NullItem THEN [threw |-> TRUE, value |-> Undef]
  ELSE [threw |-> FALSE,
        value |-> [secondary |-> OrUndefined(parsedField(raw, "secondary")),
                   customLogo |-> OrUndefined(parsedField(raw, "customLogo"))]]

\* loadConfig(): the catch block returns the default config
loadConfig(raw) ==
  LET r == loadConfigTry(raw)
  IN  IF r.threw THEN DEFAULT_CONFIG ELSE r.value

\* mutant: the item is written once and never replaced
saveConfig_KeepFirst(cfg, old) == IF old = NoItem THEN stringify(cfg) ELSE old

\* saveConfig(config): the item after the call
saveConfig(cfg, old) == stringify(cfg)

\* { ...prev, ...partial } for a partial with one key
mergeConfig(prev, key, value) ==
  [k \in DOMAIN prev \cup {key} |-> IF k = key THEN value ELSE prev[k]]

\* applyCssVariables(config): the brand colour in effect (the variables are
\* removed when secondary is falsy)
brandOf(cfg) == OrUndefined(cfg.secondary)

\* the values the settings controls and callers hand to updateConfig
ConfigValues(key) ==
  IF key = "secondary" THEN {Undef, Str(""), Str("240 5% 96%"), Str("12 80% 40%")}
  ELSE IF key = "customLogo" THEN {Undef, Str(""), Str("data:image/png;base64,iVBORw0KGgo=")}
  ELSE {Str(""), Str("Farm A")}

\* the page loads: useState(() => loadConfig())
Startup ==
  /\ uiPhase = "unloaded"
  /\ startups < MaxStartups
  /\ uiPhase' = "mounted"
  /\ config' = loadConfig(storage)
  /\ effectPending' = TRUE
  /\ startups' = startups + 1
  /\ UNCHANGED <<storage, cssBrand>>
  /\ UNCHANGED nonConfigVars

\* useEffect(() => { applyCssVariables(config); saveConfig(config) }, [config])
RunConfigEffect ==
  /\ uiPhase = "mounted"
  /\ effectPending
  /\ cssBrand' = brandOf(config)
  /\ storage' = saveConfig(config, storage)
  /\ effectPending' = FALSE
  /\ UNCHANGED <<uiPhase, config, startups>>
  /\ UNCHANGED nonConfigVars

\* updateConfig(partial): setConfig((prev) => ({ ...prev, ...partial }))
UpdateConfig(key, value) ==
  /\ uiPhase = "mounted"
  /\ config' = mergeConfig(config, key, value)
  /\ effectPending' = TRUE
  /\ UNCHANGED <<uiPhase, storage, cssBrand, startups>>
  /\ UNCHANGED nonConfigVars

\* the tab is closed or reloaded after the effects have run
Unload ==
  /\ uiPhase = "mounted"
  /\ ~effectPending
  /\ uiPhase' = "unloaded"
  /\ config' = DEFAULT_CONFIG
  /\ cssBrand' = Undef
  /\ UNCHANGED <<storage, effectPending, startups>>
  /\ UNCHANGED nonConfigVars

\* before the first load: the item is absent, empty or unreadable
ConfigStart ==
  /\ uiPhase = "unloaded"
  /\ config = DEFAULT_CONFIG
  /\ storage \in {NoItem, EmptyItem, CorruptItem, NullItem}
  /\ effectPending = FALSE
  /\ cssBrand = Undef
  /\ startups = 0

ConfigIdle ==
  /\ uiPhase = "unloaded"
  /\ config = DEFAULT_CONFIG
  /\ storage = NoItem
  /\ effectPending = FALSE
  /\ cssBrand = Undef
  /\ startups = 0

(***************************************************************************)
(* useUiConfig: applyCssVariables and the root element's style             *)
(***************************************************************************)
\* the triplet string 'h s% l%'
Hsl(h, s, l) == [h |-> h, s |-> s, l |-> l]

\* parseHsl(triplet): the three numbers of the string
parseHsl(triplet) == [h |-> triplet.h, s |-> triplet.s, l |-> triplet.l]

\* hsl(h, s, l): the triplet of the rounded numbers (the numbers here are integers)
hsl(h, s, l) == Hsl(h, s, l)

Min(a, b) == IF a < b THEN a ELSE b

primaryVars == {"--primary", "--ring", "--sidebar-primary", "--sidebar-ring", "--chart-1"}

accentSurfaceVars == {"--accent", "--sidebar-accent"}

accentFgVars == {"--accent-foreground", "--sidebar-accent-foreground"}

primaryFgVars == {"--primary-foreground", "--sidebar-primary-foreground"}

\* every variable the model tracks on the root element
StyleVars == {"--sidebar"} \cup primaryVars \cup accentSurfaceVars \cup accentFgVars
             \cup primaryFgVars

\* mutant: the two primary-foreground variables are left in place
removedVars_NoForeground == primaryVars \cup accentSurfaceVars \cup accentFgVars

\* the variables the else branch of applyCssVariables removes
removedVars == primaryVars \cup accentSurfaceVars \cup accentFgVars \cup primaryFgVars

\* the values the colour branch of applyCssVariables sets
brandStyle(colour, dark) ==
  LET c == parseHsl(colour)
      primaryL == IF dark THEN Max(c.l, 50) ELSE Min(c.l, 45)
      primary == hsl(c.h, c.s, primaryL)
      fgColor == IF primaryL > 55 THEN Hsl(0, 0, 0) ELSE Hsl(0, 0, 100)
  IN  [v \in primaryVars \cup primaryFgVars \cup accentSurfaceVars \cup accentFgVars |->
         IF v \in primaryVars THEN primary
         ELSE IF v \in primaryFgVars THEN fgColor
         ELSE IF v \in accentSurfaceVars
           THEN (IF dark THEN hsl(c.h, Min(c.s, 20), 12) ELSE hsl(c.h, Min(c.s, 40), 95))
         ELSE (IF dark THEN Hsl(0, 0, 98) ELSE hsl(c.h, c.s, 30))]

\* applyCssVariables(config): the root style after the call
applyCssVariables(colour, dark, style) ==
  IF OrUndefined(colour) # Undef
    THEN LET set == brandStyle(colour, dark)
         IN  [v \in StyleVars |->
                IF v = "--sidebar" THEN Undef
                ELSE IF v \in DOMAIN set THEN set[v]
                ELSE style[v]]
  ELSE [v \in StyleVars |->
          IF v = "--sidebar" \/ v \in removedVars THEN Undef ELSE style[v]]

\* the calls of setProperty that applyCssVariables(config) makes
paintedBy(colour, dark) ==
  IF OrUndefined(colour) # Undef
    THEN { <<v, dark>> : v \in DOMAIN brandStyle(colour, dark) }
  ELSE {}

\* the brand colours the settings page hands over
BrandColours ==
  { Hsl(h, s, l) : h \in {12, 240}, s \in {5, 30, 80}, l \in {40, 52, 96} }

NoOverrides == [v \in StyleVars |-> Undef]

\* the first render: the config comes from loadConfig, the effects are due
CssStart ==
  /\ secondary \in {Undef} \cup BrandColours
  /\ cssPending = TRUE
  /\ observed = Undef
  /\ isDark \in BOOLEAN
  /\ rootStyle \in {NoOverrides, [NoOverrides EXCEPT !["--sidebar"] = Hsl(240, 5, 96)]}
  /\ painted = {}

CssIdle ==
  /\ secondary = Undef
  /\ cssPending = FALSE
  /\ observed = Undef
  /\ isDark = FALSE
  /\ rootStyle = NoOverrides
  /\ painted = {}

\* updateConfig({ secondary: colour })
UpdateSecondary(colour) ==
  /\ colour # secondary
  /\ secondary' = colour
  /\ cssPending' = TRUE
  /\ UNCHANGED <<observed, isDark, rootStyle, painted>>
  /\ UNCHANGED nonCssVars

\* the two effects on [config]: applyCssVariables(config), and the observer
\* is replaced by one for this config, or dropped when secondary is falsy
RunCssEffects ==
  /\ cssPending
  /\ rootStyle' = applyCssVariables(secondary, isDark, rootStyle)
  /\ painted' = painted \cup paintedBy(secondary, isDark)
  /\ observed' = OrUndefined(secondary)
  /\ cssPending' = FALSE
  /\ UNCHANGED <<secondary, isDark>>
  /\ UNCHANGED nonCssVars

\* the theme is switched: the class of the root element changes and the
\* observer, if there is one, calls applyCssVariables with its config
ThemeChanges ==
  /\ isDark' = ~isDark
  /\ rootStyle' = IF observed # Undef
                    THEN applyCssVariables(observed, isDark', rootStyle)
                    ELSE rootStyle
  /\ painted' = IF observed # Undef THEN painted \cup paintedBy(observed, isDark')
                ELSE painted
  /\ UNCHANGED <<secondary, cssPending, observed>>
  /\ UNCHANGED nonCssVars

(***************************************************************************)
(* UnifiedDashboard: the worker table's search and pagination              *)
(***************************************************************************)
itemsPerPage == 15

\* filteredClients.length: every worker without a search term, else the
\* workers whose name or identity includes the term
filteredLength(term, all, hits) == IF term = "" THEN all ELSE hits

\* Math.ceil(filteredClients.length / itemsPerPage)
totalPagesOf(length) == (length + itemsPerPage - 1) \div itemsPerPage

\* filteredClients.slice(start, start + itemsPerPage).length
paginatedLength(length, pg) ==
  LET start == (pg - 1) * itemsPerPage
  IN  Max(0, Min(length, start + itemsPerPage) - start)

\* the pagination row is rendered
paginationShown(length) == length > itemsPerPage

SearchTerms == {"", "rig"}

\* the first render: no worker has arrived
PagerStart ==
  /\ currentPage = 1
  /\ searchTerm = ""
  /\ listed = 0
  /\ matching = 0

PagerIdle == PagerStart

\* the Next button: setCurrentPage((p) => Math.min(totalPages, p + 1))
ClickNext ==
  LET length == filteredLength(searchTerm, listed, matching)
  IN  /\ paginationShown(length)
      /\ currentPage # totalPagesOf(length)
      /\ currentPage' = Min(totalPagesOf(length), currentPage + 1)
      /\ UNCHANGED <<searchTerm, listed, matching>>
      /\ UNCHANGED nonPagerVars

\* the Previous button: setCurrentPage((p) => Math.max(1, p - 1))
ClickPrevious ==
  /\ paginationShown(filteredLength(searchTerm, listed, matching))
  /\ currentPage # 1
  /\ currentPage' = Max(1, currentPage - 1)
  /\ UNCHANGED <<searchTerm, listed, matching>>
  /\ UNCHANGED nonPagerVars

\* the search box: setSearchTerm(e.target.value); setCurrentPage(1)
EditSearch(term) ==
  /\ term # searchTerm
  /\ searchTerm' = term
  /\ currentPage' = 1
  /\ UNCHANGED <<listed, matching>>
  /\ UNCHANGED nonPagerVars

\* a poll of /sv1/clients returns all workers of which hits match the term
PollWorkers(all, hits) ==
  /\ <<all, hits>> # <<listed, matching>>
  /\ hits <= all
  /\ listed' = all
  /\ matching' = hits
  /\ UNCHANGED <<currentPage, searchTerm>>
  /\ UNCHANGED nonPagerVars

(***************************************************************************)
(* Shell: the connection state shown from the two health checks            *)
(***************************************************************************)
HealthServices == {"translator", "jdc"}

\* getConnectionState(isLoading, isError) of the first ConnectionStatus
getConnectionState2(loading, error) ==
  IF loading THEN "connecting" ELSE IF error THEN "error" ELSE "connected"

\* getConnectionState(isLoading, isError, isSuccess) of the second one
getConnectionState3(loading, error, success) ==
  IF loading THEN "connecting"
  ELSE IF error THEN "error"
  ELSE IF success THEN "connected"
  ELSE "disconnected"

\* the data of a health result: a boolean, or undefined
Bool(b) == [bool |-> b]

\* Boolean(data) of a health result: undefined and false are falsy
Truthy(data) == data = Bool(TRUE)

\* mutant: the shell waits for both checks
shellIsLoading_Either(translatorLoading, jdcLoading) == translatorLoading \/ jdcLoading

\* Shell: isLoading
shellIsLoading(translatorLoading, jdcLoading) == translatorLoading /\ jdcLoading

\* Shell: isSuccess
shellIsSuccess(translatorOk, jdcOk) == Truthy(translatorOk) \/ Truthy(jdcOk)

\* Shell: isError
shellIsError(loading, success) == ~loading /\ ~success

\* the state prop of <ConnectionStatus> for the health results h
stateProp(kind, h) ==
  LET loading == shellIsLoading(h["translator"].isLoading, h["jdc"].isLoading)
      success == shellIsSuccess(h["translator"].data, h["jdc"].data)
      error == shellIsError(loading, success)
  IN  IF kind = "sidebar" THEN getConnectionState3(loading, error, success)
      ELSE getConnectionState2(loading, error)

\* the label prop: set when isSuccess
labelProp(kind, h) ==
  IF shellIsSuccess(h["translator"].data, h["jdc"].data)
    THEN (IF kind = "sidebar" THEN "API Connected" ELSE "Connected")
  ELSE ""

RenderShell ==
  /\ connectionState' = stateProp(shellKind, health')
  /\ connectionLabel' = labelProp(shellKind, health')
  /\ UNCHANGED shellKind

\* a health query before its first answer
HealthPending ==
  [data |-> Undef, isLoading |-> TRUE, isError |-> FALSE, isFetching |-> TRUE, updatedAt |-> 0]

\* refetchInterval of a health query fires
HealthCheckStarts(svc) ==
  /\ shellKind # "none"
  /\ ~health[svc].isFetching
  /\ health' = [health EXCEPT ![svc].isFetching = TRUE]
  /\ RenderShell
  /\ UNCHANGED nonShellVars

\* the health request is answered: the service is healthy (ok) or not
HealthCheckAnswered(svc, ok) ==
  /\ shellKind # "none"
  /\ health[svc].isFetching
  /\ health[svc].updatedAt < MaxChecks
  /\ health' = [health EXCEPT ![svc] =
                  [data |-> Bool(ok), isLoading |-> FALSE, isError |-> FALSE,
                   isFetching |-> FALSE, updatedAt |-> @.updatedAt + 1]]
  /\ RenderShell
  /\ UNCHANGED nonShellVars

\* the health request fails: the data of an earlier answer is kept
HealthCheckFails(svc) ==
  /\ shellKind # "none"
  /\ health[svc].isFetching
  /\ health' = [health EXCEPT ![svc].isLoading = FALSE, ![svc].isError = TRUE,
                              ![svc].isFetching = FALSE]
  /\ RenderShell
  /\ UNCHANGED nonShellVars

\* the first render of a shell: both checks are loading
ShellStart ==
  /\ shellKind \in {"sidebar", "header"}
  /\ health = [svc \in HealthServices |-> HealthPending]
  /\ connectionState = "connecting"
  /\ connectionLabel = ""

ShellIdle ==
  /\ shellKind = "none"
  /\ health = [svc \in HealthServices |-> HealthPending]
  /\ connectionState = "connecting"
  /\ connectionLabel = ""

(***************************************************************************)
(* UnifiedDashboard: the metrics that follow the upstream topology         *)
(***************************************************************************)
\* sv1Data?.items || []
allClientsOf(data) == IF data = Undef THEN <<>> ELSE data.items

\* isJdMode ? (poolGlobal?.clients.total_hashrate || 0) : sv1TotalHashrate
totalHashrateOf(jd, poolGlobal, clients) ==
  IF jd
    THEN IF poolGlobal = Undef THEN Zero ELSE OrZero(poolGlobal.clients.total_hashrate)
  ELSE sv1TotalHashrateOf(clients)

\* Math.max(extBest, stdBest) over one channel response, 0 without a response
bestOfChannels(channels) ==
  IF channels = Undef THEN Zero
  ELSE LET extBest == MaxField(channels.extended_channels, "best_diff", Zero)
           stdBest == MaxField(channels.standard_channels, "best_diff", Zero)
       IN  jsMax(extBest, stdBest)

\* mutant: the best difficulty is always read from the server channels
bestDiffOf_ServerOnly(jd, clientChannels, channels) == bestOfChannels(channels)

\* UnifiedDashboard: bestDiff
bestDiffOf(jd, clientChannels, channels) ==
  IF ~jd THEN bestOfChannels(channels) ELSE bestOfChannels(clientChannels)

\* the render: both metrics follow the data they are computed from
MetricsDerived(pool, sv1) ==
  /\ totalHashrate' = totalHashrateOf(pool.isJdMode, pool.global, allClientsOf(sv1))
  /\ bestDiff' = bestDiffOf(pool.isJdMode, pool.clientChannels, pool.serverChannels)

\* the /global responses the API is made to give
GlobalResponses ==
  { [clients |-> [total_hashrate |-> h]] : h \in {Zero, Dbl(0, 7), Dbl(1, 0)} }

\* channel responses with up to MaxStandard channels of either kind
MetricChannels ==
  { [extended_channels |-> e, standard_channels |-> s,
     total_extended |-> Len(e), total_standard |-> Len(s)] :
      e \in SeqsUpTo(ChannelKinds, MaxStandard), s \in SeqsUpTo(ChannelKinds, MaxStandard) }

\* the pages of workers the API is made to give
Sv1Responses ==
  { [items |-> l, total |-> Len(l)] : l \in SeqsUpTo(ClientKinds, MaxChannels) }

\* the data of the side the dashboard is not reading from: absent, or one
\* response whose numbers differ from those of the side that is read
OtherChannels ==
  { Undef,
    [extended_channels |-> << [shares_accepted |-> Dbl(0, 0),
                               last_share_sequence_number |-> Dbl(0, 0),
                               share_work_sum |-> Dbl(0, 3), best_diff |-> Dbl(1, 0)] >>,
     standard_channels |-> <<>>, total_extended |-> 1, total_standard |-> 0] }

OtherGlobal == { Undef, [clients |-> [total_hashrate |-> Dbl(0, 7)]] }

OtherSv1 == { Undef, [items |-> << [hashrate |-> Dbl(0, 1)] >>, total |-> 1] }

\* the render after the first data arrived: in either mode the side that is
\* read takes every bounded shape
MetricStart ==
  /\ \/ /\ poolData \in [isJdMode : {TRUE}, global : GlobalResponses \cup {Undef},
                         clientChannels : MetricChannels \cup {Undef},
                         serverChannels : OtherChannels]
        /\ sv1Data \in OtherSv1
     \/ /\ poolData \in [isJdMode : {FALSE}, global : OtherGlobal,
                         clientChannels : OtherChannels,
                         serverChannels : MetricChannels \cup {Undef}]
        /\ sv1Data \in OtherSv1
     \/ /\ poolData \in [isJdMode : {FALSE}, global : OtherGlobal,
                         clientChannels : OtherChannels,
                         serverChannels : OtherChannels]
        /\ sv1Data \in Sv1Responses \cup {Undef}
  /\ totalHashrate = totalHashrateOf(poolData.isJdMode, poolData.global, allClientsOf(sv1Data))
  /\ bestDiff = bestDiffOf(poolData.isJdMode, poolData.clientChannels, poolData.serverChannels)

\* no data has arrived
MetricIdle ==
  /\ poolData = [isJdMode |-> FALSE, global |-> Undef, clientChannels |-> Undef,
                 serverChannels |-> Undef]
  /\ sv1Data = Undef
  /\ totalHashrate = Zero
  /\ bestDiff = Zero

\* usePoolData reports the other topology
ModeChanges ==
  /\ poolData' = [poolData EXCEPT !.isJdMode = ~poolData.isJdMode]
  /\ MetricsDerived(poolData', sv1Data)
  /\ UNCHANGED sv1Data
  /\ UNCHANGED nonMetricVars

\* a poll of /global is answered
GlobalRefetched(g) ==
  /\ g # poolData.global
  /\ poolData' = [poolData EXCEPT !.global = g]
  /\ MetricsDerived(poolData', sv1Data)
  /\ UNCHANGED sv1Data
  /\ UNCHANGED nonMetricVars

\* the list without its last entry
DropLast(list) == SubSeq(list, 1, Len(list) - 1)

\* a poll of the client or server channels finds the last channel of a list closed
ChannelCloses(side, list) ==
  /\ poolData[side] # Undef
  /\ Len(poolData[side][list]) > 0
  /\ LET old == poolData[side]
         new == IF list = "extended_channels"
                  THEN [old EXCEPT !.extended_channels = DropLast(@),
                                   !.total_extended = @ - 1]
                  ELSE [old EXCEPT !.standard_channels = DropLast(@),
                                   !.total_standard = @ - 1]
     IN  poolData' = IF side = "clientChannels"
                       THEN [poolData EXCEPT !.clientChannels = new]
                       ELSE [poolData EXCEPT !.serverChannels = new]
  /\ MetricsDerived(poolData', sv1Data)
  /\ UNCHANGED sv1Data
  /\ UNCHANGED nonMetricVars

\* a poll of /sv1/clients finds the last worker gone
WorkerDisconnects ==
  /\ sv1Data # Undef
  /\ Len(sv1Data.items) > 0
  /\ sv1Data' = [items |-> DropLast(sv1Data.items), total |-> sv1Data.total - 1]
  /\ MetricsDerived(poolData, sv1Data')
  /\ UNCHANGED poolData
  /\ UNCHANGED nonMetricVars

(***************************************************************************)
(* Start states of a hook instance                                         *)
(***************************************************************************)
\* after the first render, before the effects have run
ColdStart ==
  /\ hook \in HookKinds
  /\ phase = "init"
  /\ now = T0
  /\ timerActive = FALSE
  /\ nextFire = 0
  /\ horizonEnd = T0 + Horizon * SAMPLE_INTERVAL_MS
  /\ currentHashrate \in (IF hook = "share" THEN {Undef} ELSE HashrateInputs)
  /\ hashrateRef = (IF hook = "ref" THEN currentHashrate ELSE Undef)
  /\ latestHashrateRef = Null
  /\ lastSampleTime = 0
  /\ accepted \in (IF hook = "share" THEN ShareInputs ELSE {Undef})
  /\ submitted \in (IF hook = "share" THEN ShareInputs ELSE {Undef})
  /\ lastAccepted = 0
  /\ lastSubmitted = 0
  /\ history = <<>>
  /\ samples = <<>>
  /\ ev = "init"

\* The instance has been mounted since T0 and has recorded WarmLen points, one
\* per interval: a hashrate hook fed the constant value 0 whose timer ran on
\* time, a share hook whose submitted counter alternated between 1 and 0.
WarmTime(i) == T0 + (i - 1) * SAMPLE_INTERVAL_MS

WarmHistory(kind) ==
  [i \in 1..WarmLen |->
     IF kind = "ref" THEN samplePoint(Num(0), WarmTime(i))
     ELSE IF kind = "dedupe" THEN dedupePoint(Num(0), WarmTime(i))
     ELSE sharePoint(WarmTime(i), i % 2, i % 2)]

WarmStart ==
  /\ hook \in HookKinds
  /\ phase = "mounted"
  /\ now = WarmTime(WarmLen)
  /\ timerActive = (hook # "share")
  /\ nextFire = (IF hook = "share" THEN 0 ELSE now + SAMPLE_INTERVAL_MS)
  /\ horizonEnd = now + Horizon * SAMPLE_INTERVAL_MS
  /\ currentHashrate = (IF hook = "share" THEN Undef ELSE Num(0))
  /\ hashrateRef = (IF hook = "ref" THEN Num(0) ELSE Undef)
  /\ latestHashrateRef = (IF hook = "dedupe" THEN Num(0) ELSE Null)
  /\ lastSampleTime = (IF hook = "ref" THEN 0 ELSE now)
  /\ accepted = (IF hook = "share" THEN Num(WarmLen % 2) ELSE Undef)
  /\ submitted = (IF hook = "share" THEN Num(WarmLen % 2) ELSE Undef)
  /\ lastAccepted = (IF hook = "share" THEN WarmLen % 2 ELSE 0)
  /\ lastSubmitted = (IF hook = "share" THEN WarmLen % 2 ELSE 0)
  /\ history = WarmHistory(hook)
  /\ samples = history
  /\ ev = "init"

\* a hook instance that is never mounted
HooksIdle ==
  /\ hook = "ref"
  /\ phase = "idle"
  /\ now = T0
  /\ timerActive = FALSE
  /\ nextFire = 0
  /\ horizonEnd = T0
  /\ currentHashrate = Undef
  /\ hashrateRef = Undef
  /\ latestHashrateRef = Null
  /\ lastSampleTime = 0
  /\ accepted = Undef
  /\ submitted = Undef
  /\ lastAccepted = 0
  /\ lastSubmitted = 0
  /\ history = <<>>
  /\ samples = <<>>
  /\ ev = "init"

\* ---- start states: the other parts at rest ----
\* nothing happens in the parts other than the history hooks
nonHookIdle ==
  DashIdle /\ PollIdle /\ UrlIdle /\ FetchIdle /\ PageIdle /\ LiveIdle /\ OverlapIdle /\ ConfigIdle /\ ShellIdle /\ MetricIdle /\ CssIdle /\ PagerIdle

\* nothing happens in the parts other than the dashboard's derived totals
nonDashIdle ==
  HooksIdle /\ PollIdle /\ UrlIdle /\ FetchIdle /\ PageIdle /\ LiveIdle /\ OverlapIdle /\ ConfigIdle /\ ShellIdle /\ MetricIdle /\ CssIdle /\ PagerIdle

\* nothing happens in the parts other than the polling queries
nonPollIdle ==
  HooksIdle /\ DashIdle /\ UrlIdle /\ FetchIdle /\ PageIdle /\ LiveIdle /\ OverlapIdle /\ ConfigIdle /\ ShellIdle /\ MetricIdle /\ CssIdle /\ PagerIdle

\* nothing happens in the parts other than the endpoint resolution
nonUrlIdle ==
  HooksIdle /\ DashIdle /\ PollIdle /\ FetchIdle /\ PageIdle /\ LiveIdle /\ OverlapIdle /\ ConfigIdle /\ ShellIdle /\ MetricIdle /\ CssIdle /\ PagerIdle

\* nothing happens in the parts other than apiFetch
nonFetchIdle ==
  HooksIdle /\ DashIdle /\ PollIdle /\ UrlIdle /\ PageIdle /\ LiveIdle /\ OverlapIdle /\ ConfigIdle /\ ShellIdle /\ MetricIdle /\ CssIdle /\ PagerIdle

\* nothing happens in the parts other than the pages' connection banners
nonPageIdle ==
  HooksIdle /\ DashIdle /\ PollIdle /\ UrlIdle /\ FetchIdle /\ LiveIdle /\ OverlapIdle /\ ConfigIdle /\ ShellIdle /\ MetricIdle /\ CssIdle /\ PagerIdle

\* nothing happens in the parts other than the endpoint's condition
nonLiveIdle ==
  HooksIdle /\ DashIdle /\ PollIdle /\ UrlIdle /\ FetchIdle /\ PageIdle /\ OverlapIdle /\ ConfigIdle /\ ShellIdle /\ MetricIdle /\ CssIdle /\ PagerIdle

\* nothing happens in the parts other than the overlapping requests
nonOverlapIdle ==
  HooksIdle /\ DashIdle /\ PollIdle /\ UrlIdle /\ FetchIdle /\ PageIdle /\ LiveIdle /\ ConfigIdle /\ ShellIdle /\ MetricIdle /\ CssIdle /\ PagerIdle

\* nothing happens in the parts other than the UI preferences
nonConfigIdle ==
  HooksIdle /\ DashIdle /\ PollIdle /\ UrlIdle /\ FetchIdle /\ PageIdle /\ LiveIdle /\ OverlapIdle /\ ShellIdle /\ MetricIdle /\ CssIdle /\ PagerIdle

\* nothing happens in the parts other than the shell's connection state
nonShellIdle ==
  HooksIdle /\ DashIdle /\ PollIdle /\ UrlIdle /\ FetchIdle /\ PageIdle /\ LiveIdle /\ OverlapIdle /\ ConfigIdle /\ MetricIdle /\ CssIdle /\ PagerIdle

\* nothing happens in the parts other than the dashboard's topology metrics
nonMetricIdle ==
  HooksIdle /\ DashIdle /\ PollIdle /\ UrlIdle /\ FetchIdle /\ PageIdle /\ LiveIdle /\ OverlapIdle /\ ConfigIdle /\ ShellIdle /\ CssIdle /\ PagerIdle

\* nothing happens in the parts other than the root element's style
nonCssIdle ==
  HooksIdle /\ DashIdle /\ PollIdle /\ UrlIdle /\ FetchIdle /\ PageIdle /\ LiveIdle /\ OverlapIdle /\ ConfigIdle /\ ShellIdle /\ MetricIdle /\ PagerIdle

\* nothing happens in the parts other than the worker table's pages
nonPagerIdle ==
  HooksIdle /\ DashIdle /\ PollIdle /\ UrlIdle /\ FetchIdle /\ PageIdle /\ LiveIdle /\ OverlapIdle /\ ConfigIdle /\ ShellIdle /\ MetricIdle /\ CssIdle

\* nothing happens in the parts apiFetch does not touch
nonUrlFetchIdle ==
  HooksIdle /\ DashIdle /\ PollIdle /\ PageIdle /\ LiveIdle /\ OverlapIdle /\ ConfigIdle /\ ShellIdle /\ MetricIdle /\ CssIdle /\ PagerIdle
\* ---- end of the start states at rest ----

Init == (ColdStart \/ WarmStart) /\ nonHookIdle

Next ==
  \/ MountRef
  \/ \E v \in HashrateInputs : SyncRef(v)
  \/ TickRef
  \/ MountDedupe
  \/ \E v \in HashrateInputs : ValueEffect(v)
  \/ TickDedupe
  \/ MountShare
  \/ \E a \in ShareInputs, s \in ShareInputs : ShareEffect(a, s)
  \/ Unmount
  \/ \E d \in ClockSteps : Advance(d)

Spec == Init /\ [][Next]_vars

(***************************************************************************)
(* SpecDash: the derived totals of the dashboard pages                     *)
(***************************************************************************)
InitDash == DashStart /\ nonDashIdle

NextDash ==
  \/ \E i \in 1..MaxChannels : ReorderExtended(i)
  \/ \E i \in 1..MaxChannels : ReorderStandard(i)
  \/ \E i \in 1..MaxChannels : ReorderClients(i)

SpecDash == InitDash /\ [][NextDash]_vars

(***************************************************************************)
(* SpecPoll: the polling queries of useApi                                 *)
(***************************************************************************)
InitPoll == PollIdle /\ nonPollIdle

NextPoll ==
  \/ \E r \in Resources : MountQuery(r)
  \/ \E r \in Resources, resp \in Responses : Respond(r, resp)
  \/ \E r \in Resources : RetryFire(r)
  \/ \E r \in Resources : RefetchInterval(r)

SpecPoll == InitPoll /\ [][NextPoll]_vars

(***************************************************************************)
(* SpecFetch: one call of apiFetch                                         *)
(***************************************************************************)
InitFetch == UrlStart /\ FetchIdle /\ nonUrlFetchIdle

NextFetch ==
  \E endpoint \in Endpoints, service \in Services, resp \in FetchResponses :
    ApiFetch(endpoint, service, resp)

SpecFetch == InitFetch /\ [][NextFetch]_vars

(***************************************************************************)
(* SpecPage: the connection banners of the pages                           *)
(***************************************************************************)
InitPage == PageStart /\ nonPageIdle

NextPage ==
  \/ \E loading, error, fetching \in BOOLEAN : PoolQueryUpdate(loading, error, fetching)
  \/ \E global, serverCh, clientCh, poolCh, sv1 \in BOOLEAN, count \in 0..MaxWorkers :
       TelemetryUpdate(global, serverCh, clientCh, poolCh, count, sv1)
  \/ HandleRetry
  \/ RetrySettled

SpecPage == InitPage /\ [][NextPage]_vars

(***************************************************************************)
(* SpecRecover: polling through an outage, with the timers and the         *)
(* endpoint's answers scheduled fairly                                     *)
(***************************************************************************)
InitRecover == LiveStart /\ nonLiveIdle

NextRecover ==
  \/ \E r \in LiveResources : MountQuery(r)
  \/ \E r \in LiveResources : EndpointAnswers(r)
  \/ \E r \in LiveResources : RetryFire(r)
  \/ \E r \in LiveResources : RefetchInterval(r)
  \/ \E r \in LiveResources : ManualRefetch(r)
  \/ EndpointChanges

\* a mounted query's timers fire and a request sent is answered
FairRecover ==
  \A r \in LiveResources :
    /\ WF_vars(MountQuery(r))
    /\ WF_vars(EndpointAnswers(r))
    /\ WF_vars(RetryFire(r))
    /\ WF_vars(RefetchInterval(r))

SpecRecover == InitRecover /\ [][NextRecover]_vars /\ FairRecover

(***************************************************************************)
(* SpecOverlap: requests of useServerChannels answered in any order        *)
(***************************************************************************)
InitOverlap == OverlapIdle /\ nonOverlapIdle

NextOverlap ==
  \/ PollChannels
  \/ \E offset \in Offsets : SetOffset(offset)
  \/ \E req \in inFlight : ChannelsResolve(req)

SpecOverlap == InitOverlap /\ [][NextOverlap]_vars

(***************************************************************************)
(* SpecConfig: the UI preferences across page loads                        *)
(***************************************************************************)
InitConfig == ConfigStart /\ nonConfigIdle

NextConfig ==
  \/ Startup
  \/ RunConfigEffect
  \/ \E key \in ConfigKeys : \E value \in ConfigValues(key) : UpdateConfig(key, value)
  \/ Unload

SpecConfig == InitConfig /\ [][NextConfig]_vars

(***************************************************************************)
(* SpecShell: the shell's connection state                                 *)
(***************************************************************************)
InitShell == ShellStart /\ nonShellIdle

NextShell ==
  \/ \E svc \in HealthServices : HealthCheckStarts(svc)
  \/ \E svc \in HealthServices, ok \in BOOLEAN : HealthCheckAnswered(svc, ok)
  \/ \E svc \in HealthServices : HealthCheckFails(svc)

SpecShell == InitShell /\ [][NextShell]_vars

(***************************************************************************)
(* SpecUrl: the base URL of a request                                      *)
(***************************************************************************)
InitUrl == UrlStart /\ nonUrlIdle

NextUrl == \E service \in Services : ApiFetchBase(service)

SpecUrl == InitUrl /\ [][NextUrl]_vars

(***************************************************************************)
(* SpecMetrics: the dashboard's hashrate and best difficulty               *)
(***************************************************************************)
InitMetrics == MetricStart /\ nonMetricIdle

NextMetrics ==
  \/ ModeChanges
  \/ \E g \in GlobalResponses \cup {Undef} : GlobalRefetched(g)
  \/ \E side \in {"clientChannels", "serverChannels"},
        list \in {"extended_channels", "standard_channels"} : ChannelCloses(side, list)
  \/ WorkerDisconnects

SpecMetrics == InitMetrics /\ [][NextMetrics]_vars

(***************************************************************************)
(* SpecCss: the brand colour on the root element                           *)
(***************************************************************************)
InitCss == CssStart /\ nonCssIdle

NextCss ==
  \/ \E colour \in {Undef, Str("")} \cup BrandColours : UpdateSecondary(colour)
  \/ RunCssEffects
  \/ ThemeChanges

SpecCss == InitCss /\ [][NextCss]_vars

(***************************************************************************)
(* SpecPager: the pages of the worker table                                *)
(***************************************************************************)
InitPager == PagerStart /\ nonPagerIdle

NextPager ==
  \/ ClickNext
  \/ ClickPrevious
  \/ \E term \in SearchTerms : EditSearch(term)
  \/ \E all \in 0..MaxListed, hits \in 0..MaxListed : PollWorkers(all, hits)

SpecPager == InitPager /\ [][NextPager]_vars

(***************************************************************************)
(* Claims about the history hooks (checked under Spec)                     *)
(***************************************************************************)
HashrateHook == hook \in {"ref", "dedupe"}

\* the ref the interval callback of this hook reads
TrackedRef == IF hook = "ref" THEN hashrateRef ELSE latestHashrateRef

LastOf(s) == s[Len(s)]

\* C1: the buffer returned by useHashrateHistory (both versions) and by
\* useShareHistory never holds more than MAX_HISTORY_POINTS entries.
C1_BufferCapped == Len(history) <= MAX_HISTORY_POINTS

\* the ref hook has taken more samples than the cap and holds exactly the cap
C1_Witness ==
  /\ hook = "ref" /\ ev = "tick"
  /\ Len(samples) > MAX_HISTORY_POINTS
  /\ Len(history) = MAX_HISTORY_POINTS

C3_MostRecentSamples ==
  HashrateHook =>
    /\ Len(history) = (IF Len(samples) < MAX_HISTORY_POINTS
                         THEN Len(samples) ELSE MAX_HISTORY_POINTS)
    /\ \A i \in 1..Len(history) :
         history[i] = samples[Len(samples) - Len(history) + i]

\* the dedupe hook has dropped its oldest sample
C3_Witness ==
  /\ hook = "dedupe"
  /\ Len(samples) = MAX_HISTORY_POINTS + 1
  /\ history[1] = samples[2]
  /\ LastOf(history) = LastOf(samples)

C5_MissingValueAddsNothing ==
  [][(HashrateHook /\ ev' \in {"tick", "mount"} /\ TrackedRef' \in {Undef, Null})
       => history' = history]_vars

\* a tick of the ref hook found undefined while the buffer held a point
C5_Witness ==
  /\ hook = "ref" /\ ev = "tick"
  /\ hashrateRef = Undef
  /\ Len(history) = 1

\* C6 as stated: every entry of the hashrate history buffer is appended by the
\* interval callback or at mount, and a change of the tracked value never
\* appends one, in both versions of useHashrateHistory.
C6_OnlyTimerAppends ==
  [][HashrateHook => /\ (history' # history => ev' \in {"tick", "mount"})
                     /\ (ev' = "value" => history' = history)]_vars

\* C6 amended: in the ref hook every entry is appended by the interval
\* callback or at mount and a change of the tracked value never appends one;
\* in the dedupe hook a change of the tracked value to a number appends an
\* entry itself exactly when no point has been recorded yet or the last one is
\* at least SAMPLE_INTERVAL_MS old, and nothing but the interval callback, the
\* mount and such a change appends.
C6_TimerOrSeedAppends ==
  [][HashrateHook =>
       /\ (history' # history => ev' \in {"tick", "mount", "value"})
       /\ (ev' = "value" =>
             IF hook = "dedupe" /\ currentHashrate' \in Hashrates
                  /\ now - lastSampleTime >= SAMPLE_INTERVAL_MS
               THEN /\ samples' = Append(samples, dedupePoint(currentHashrate', now))
                    /\ LastOf(history') = LastOf(samples')
               ELSE history' = history /\ samples' = samples)]_vars

\* the ref hook was given a new number and its buffer still holds only the
\* mount sample of the old one
C6_Witness ==
  /\ hook = "ref" /\ ev = "value"
  /\ currentHashrate = Num(7)
  /\ Len(history) = 1
  /\ history[1].hashrate = Num(0)

\* C7: the buffer is empty when the component mounts, and after unmount the
\* interval is cleared: nothing changes the buffer any more.
C7_Lifecycle ==
  /\ [](phase = "init" => history = <<>>)
  /\ [][(phase = "unmounted" => history' = history /\ phase' = "unmounted")
        /\ (ev' = "mount" => history = <<>>)]_vars

\* an unmounted ref hook holding a number, at a time its interval was due
C7_Witness ==
  /\ hook = "ref" /\ phase = "unmounted" /\ ev = "clock"
  /\ hashrateRef \in Hashrates
  /\ now >= nextFire
  /\ Len(history) = 1


(***************************************************************************)
(* Derived totals of the dashboard pages (SpecDash)                        *)
(***************************************************************************)
\* every value is an integer below 2^53 and so is their total: no addition rounds
SumsExactly(values) == \A k \in 1..Len(values) : values[k].hi = 0

WorkSums ==
  IF serverChannels = Undef THEN <<>>
  ELSE Column(serverChannels.extended_channels, "share_work_sum")
         \o Column(serverChannels.standard_channels, "share_work_sum")

AcceptedCounts ==
  IF serverChannels = Undef THEN <<>>
  ELSE Column(serverChannels.extended_channels, "shares_accepted")
         \o Column(serverChannels.standard_channels, "shares_accepted")

ClientHashrates == HashratesOrZero(allClients)

\* C8: a poll that returns the same channels and the same workers in another
\* order leaves the accepted-shares total, the share work sum and the SV1
\* hashrate sum as they were.
C8_TotalsOrderIndependent ==
  [][/\ shareStats'.accepted = shareStats.accepted
     /\ stats'.sharesAccepted = stats.sharesAccepted
     /\ stats'.shareWorkSum = stats.shareWorkSum
     /\ sv1TotalHashrate' = sv1TotalHashrate]_vars

\* C8 (as the code has it): the totals are sums of JavaScript numbers taken
\* from left to right.  A reordering leaves a total as it was when the values
\* summed are integers with a total below 2^53, so that no addition rounds;
\* beyond that the share work sum and the hashrate sum depend on the order.
C8_ExactTotalsOrderIndependent ==
  [][/\ SumsExactly(AcceptedCounts) =>
          /\ shareStats'.accepted = shareStats.accepted
          /\ stats'.sharesAccepted = stats.sharesAccepted
     /\ SumsExactly(WorkSums) => stats'.shareWorkSum = stats.shareWorkSum
     /\ SumsExactly(ClientHashrates) => sv1TotalHashrate' = sv1TotalHashrate]_vars

\* two different channels have been exchanged and the totals are not zero
C8_Witness ==
  /\ reordered
  /\ serverChannels # Undef
  /\ Len(serverChannels.extended_channels) = MaxChannels
  /\ serverChannels.extended_channels[1] # serverChannels.extended_channels[2]
  /\ Len(serverChannels.standard_channels) >= 1
  /\ SumsExactly(WorkSums)
  /\ stats.shareWorkSum = Dbl(0, 8)
  /\ shareStats.accepted = Dbl(0, 2)

(***************************************************************************)
(* The polling queries (SpecPoll)                                          *)
(***************************************************************************)
\* C9: when the request for an optional resource is answered with 404, the
\* query gives up: it settles in error and no retry of the request is
\* scheduled, whatever the queries of the other resources are doing.
C9_NotFoundStopsRetry ==
  [][\A r \in OptionalResources :
       (qstate[r] = "fetching" /\ qstate'[r] # "fetching" /\ lastStatus'[r] = 404)
         => (qstate'[r] = "error" /\ \A o \in Resources \ {r} : qstate'[o] = qstate[o])]_vars

(***************************************************************************)
(* The base URL of a request (SpecUrl)                                     *)
(***************************************************************************)
\* the query parameter and the environment variable that configure a service
ParamOf(service) == IF service = Str("jdc") THEN search.jdc_url ELSE search.translator_url

EnvOf(service) == IF service = Str("jdc") THEN env.VITE_JDC_URL ELSE env.VITE_TRANSLATOR_URL

DefaultOf(service) ==
  IF service = Str("jdc") THEN EXTERNAL_ENDPOINTS.jdc ELSE EXTERNAL_ENDPOINTS.translator

\* C10: the base URL of a request to jdc or translator is the service's query
\* parameter when the query string has it, otherwise the service's environment
\* variable when it is set, otherwise the hardcoded local default.
C10_ResolutionOrder ==
  requestService \in {Str("jdc"), Str("translator")} =>
    baseUrl = IF ParamOf(requestService) # Null THEN ParamOf(requestService)
              ELSE IF EnvOf(requestService) # Undef THEN EnvOf(requestService)
              ELSE DefaultOf(requestService)

(***************************************************************************)
(* apiFetch (SpecFetch)                                                    *)
(***************************************************************************)
\* C11: every failure of apiFetch is an Error: for a response that is not 2xx
\* its message is the body's error field, or 'HTTP <status>' when the body has
\* no such field (or an empty one); a body that does not parse never lets the parser's own
\* exception through but yields the generic message, for 2xx responses as
\* for the others.
C11_FailuresMapped ==
  (outcome # Null /\ response # NetworkError) =>
    /\ ~response.ok =>
         /\ outcome.threw /\ outcome.name = "Error"
         /\ response.json /\ response.error \notin {Undef, Str("")} =>
              outcome.message = response.error
         /\ response.json /\ response.error \in {Undef, Str("")} =>
              outcome.message = HttpMessage(response.status)
    /\ ~response.json =>
         /\ outcome.threw /\ outcome.name = "Error"
         /\ outcome.message = Str("Unknown error")

(***************************************************************************)
(* The connection banners (SpecPage)                                       *)
(***************************************************************************)
\* the page holds some telemetry data
HoldsData ==
  hasTelemetryData(page, hasGlobal, hasServerChannels, hasClientChannels,
                   hasPoolChannels, clientCount)

\* the banners of the last render that carry a retry action
RetryBanners == {b \in banners : b.onRetry # ""}

\* C12: whenever the pool telemetry query is in error, the page shows a
\* ConnectionAlert with a retry action, whatever the loading flag and the data
\* held; its tone is 'warning' when telemetry data is held and 'error' when
\* none is.
C12_ErrorBannerShown ==
  poolError =>
    /\ RetryBanners # {}
    /\ \A b \in RetryBanners : b.tone = (IF HoldsData THEN "warning" ELSE "error")

\* both tones occur: an error with data on PoolStats while loading, and the
\* banners of the render include the degraded one
C12_Witness ==
  /\ page = "PoolStats"
  /\ poolError /\ poolLoading /\ HoldsData
  /\ [tone |-> "warning", onRetry |-> "handleRetry", retrying |-> TRUE] \in banners

\* C26: for every combination of the loading, error and has-data flags a
\* page renders exactly one of its three main regions: the loading skeleton
\* (loading, no data), the hard-error panel (error, no data) or the data
\* view (not loading, and no error or data held); on UnifiedDashboard and on
\* PoolStats.
C26_ExactlyOneRegion ==
  page # "none" =>
    /\ Cardinality(regions) = 1
    /\ ("skeleton" \in regions <=> poolLoading /\ ~HoldsData)
    /\ ("hardError" \in regions <=> poolError /\ ~HoldsData)
    /\ ("data" \in regions <=> ~poolLoading /\ (~poolError \/ HoldsData))

(***************************************************************************)
(* Recovery after a failure (SpecRecover)                                  *)
(***************************************************************************)
\* C13: no failure of a polled query is final.  If from some time on the
\* endpoint answers successfully, every query in the error state (retries
\* exhausted or not attempted) is fetched again by its poll timer and ends in
\* success with the fetched data in place of the error.
C13_FailureRecovers ==
  \A r \in LiveResources :
    (<>[]endpointUp) => [](qstate[r] = "error" => <>(qstate[r] = "success" /\ qerror[r] = Null))

\* the re-fetch of a query whose retries were exhausted is in flight and the
\* endpoint is up again: the old error is still held
C13_Witness ==
  /\ endpointUp
  /\ qstate["global"] = "fetching"
  /\ failureCount["global"] = 0
  /\ qerror["global"] = Str("Internal error")
  /\ lastStatus["global"] = 500

(***************************************************************************)
(* Overlapping requests (SpecOverlap)                                      *)
(***************************************************************************)
\* C14: requests of the same resource that overlap are not cancelled, and
\* what is shown for the resource is always the payload of the response that
\* resolved last, so that an older request answered after a newer one
\* overwrites the newer one's payload.
C14_LastResolvedShown ==
  lastResolved # 0 => shownPayload = lastResolved

\* C14 (as the code has it): overlapping requests are not aborted, but each
\* answer goes to the query key of its own request.  The payload of a query
\* key is only ever replaced by that of a later request, and an answer for a
\* key the component no longer observes leaves what is shown unchanged.
C14_NoStaleOverwrite ==
  [][/\ \A k \in Offsets : cached'[k] >= cached[k]
     /\ \A req \in inFlight :
          (req \notin inFlight' /\ req.offset # observedOffset) =>
            shownPayload' = shownPayload]_vars

\* two requests overlapped and were answered out of order: the older one
\* last, while the newer one's payload is shown
C14_Witness ==
  /\ lastResolved # 0
  /\ shownPayload > lastResolved
  /\ cached[0] # 0 /\ cached[25] # 0

(***************************************************************************)
(* The UI preferences (SpecConfig)                                         *)
(***************************************************************************)
\* the effects have run for the current config
Settled == uiPhase = "mounted" /\ ~effectPending

Loads == uiPhase = "unloaded" /\ uiPhase' = "mounted"

\* the item holds a JSON object
IsRecordItem(raw) == raw \notin {NoItem, EmptyItem, CorruptItem, NullItem}

\* C21: loadConfig never fails.  When the stored item is absent, empty or not
\* a JSON object it returns the default config, secondary and customLogo both
\* undefined; a field stored as the empty string is returned as undefined,
\* and any other stored field is returned as stored.
C21_LoadConfigTotal ==
  [][Loads =>
       /\ DOMAIN config' = {"secondary", "customLogo"}
       /\ (~IsRecordItem(storage) =>
             config'.secondary = Undef /\ config'.customLogo = Undef)
       /\ (IsRecordItem(storage) =>
             \A k \in {"secondary", "customLogo"} :
               LET stored == parsedField(storage, k)
               IN  config'[k] = (IF stored = Str("") THEN Undef ELSE stored))]_vars

\* the second page load has just read a record whose secondary is the empty
\* string and whose logo is set: the colour comes back undefined
C21_Witness ==
  /\ uiPhase = "mounted" /\ effectPending
  /\ startups = 2
  /\ IsRecordItem(storage)
  /\ parsedField(storage, "secondary") = Str("")
  /\ parsedField(storage, "customLogo") = Str("data:image/png;base64,iVBORw0KGgo=")
  /\ config = [secondary |-> Undef,
               customLogo |-> Str("data:image/png;base64,iVBORw0KGgo=")]

(***************************************************************************)
(* The shell's connection state (SpecShell)                                *)
(***************************************************************************)
\* C16: whenever the Translator or the JDC health check has succeeded, the
\* state handed to ConnectionStatus is 'connected', whether the other check
\* has failed or is still loading.
C16_ConnectedIfAnyHealthy ==
  (shellKind # "none" /\ \E svc \in HealthServices : Truthy(health[svc].data)) =>
    connectionState = "connected"

\* the Translator answered healthy while the JDC check is still loading, and
\* the JDC check has failed while the Translator is healthy
C16_Witness ==
  /\ connectionState = "connected"
  /\ Truthy(health["translator"].data)
  /\ ~Truthy(health["jdc"].data)
  /\ health["jdc"].isLoading \/ health["jdc"].isError

(***************************************************************************)
(* The de-duplicating hashrate history (Spec)                              *)
(***************************************************************************)
\* consecutive points of a list are at least gap ms apart
SpacedBy(points, gap) ==
  \A i \in 1..(Len(points) - 1) : points[i + 1].timestamp - points[i].timestamp >= gap

\* C17: in the de-duplicating useHashrateHistory any two consecutive points
\* of the buffer are at least SAMPLE_INTERVAL_MS - 250 ms apart, however the
\* value-change seeds and the timer ticks interleave.
C17_NoNearDuplicates ==
  hook = "dedupe" =>
    /\ SpacedBy(history, SAMPLE_INTERVAL_MS - DEDUPE_SLACK_MS)
    /\ SpacedBy(samples, SAMPLE_INTERVAL_MS - DEDUPE_SLACK_MS)

\* the first value arrived at the instant the first tick was due: the value
\* effect seeded the buffer and the tick that followed was dropped
C17_Witness ==
  /\ hook = "dedupe" /\ ev = "tick"
  /\ now = T0 + SAMPLE_INTERVAL_MS
  /\ Len(samples) = 1
  /\ samples[1].timestamp = now
  /\ lastSampleTime = now

(***************************************************************************)
(* The share history (Spec)                                                *)
(***************************************************************************)
\* the step recorded a point in the share history
ShareRecorded == hook = "share" /\ Len(samples') = Len(samples) + 1

\* the step took a sample in the share hook: it stamped lastSampleTime
ShareSampled == hook = "share" /\ lastSampleTime' # lastSampleTime

\* C18: every point recorded by useShareHistory holds the accepted and the
\* submitted shares gained since the previous sample: there is a previous
\* sample, each value is the counter's increase over the value seen at that
\* sample, it is never negative, and it is 0 when the counter went down.
C18_DeltaSincePreviousSample ==
  [][ShareRecorded =>
       LET pt == LastOf(samples')
       IN  /\ lastSampleTime > 0
           /\ pt.accepted = Max(0, accepted'.num - lastAccepted)
           /\ pt.submitted = Max(0, submitted'.num - lastSubmitted)
           /\ pt.accepted >= 0 /\ pt.submitted >= 0
           /\ (accepted'.num < lastAccepted => pt.accepted = 0)
           /\ (submitted'.num < lastSubmitted => pt.submitted = 0)]_vars

DiffsOf(channels) ==
  IF channels = Undef THEN {}
  ELSE { channels.extended_channels[k].best_diff :
           k \in 1..Len(channels.extended_channels) }
       \cup { channels.standard_channels[k].best_diff :
                k \in 1..Len(channels.standard_channels) }

\* m is the largest of the values, or 0 when there is none
IsMaxOrZero(m, values) ==
  /\ m \in values \cup {Zero}
  /\ \A v \in values : ~jsLess(m, v)

\* the hashrates of the workers, null read as 0
HashratesNullAsZero(data) ==
  IF data = Undef THEN <<>>
  ELSE [k \in 1..Len(data.items) |->
          IF data.items[k].hashrate = Null THEN Zero ELSE data.items[k].hashrate]

NonNegative(x) == ~jsLess(x, Zero)

\* C20: the metrics of UnifiedDashboard follow the topology.  In JD mode the
\* total hashrate is total_hashrate of the global clients summary and the
\* best difficulty is the largest best_diff of the client channels, extended
\* and standard; otherwise the total hashrate is the sum of the SV1 workers'
\* hashrates with null counted as 0 and the best difficulty is the largest
\* best_diff of the server channels.  Without data or channels the value is
\* 0, and it is never negative.
C20_MetricsFollowTopology ==
  /\ poolData.isJdMode =>
       /\ totalHashrate = (IF poolData.global = Undef THEN Zero
                           ELSE poolData.global.clients.total_hashrate)
       /\ IsMaxOrZero(bestDiff, DiffsOf(poolData.clientChannels))
  /\ ~poolData.isJdMode =>
       /\ totalHashrate = Sum(HashratesNullAsZero(sv1Data))
       /\ (sv1Data = Undef => totalHashrate = Zero)
       /\ IsMaxOrZero(bestDiff, DiffsOf(poolData.serverChannels))
  /\ NonNegative(totalHashrate) /\ NonNegative(bestDiff)

\* the dashboard switched to JD mode while both sides report: the best
\* difficulty is the client channel's, not the larger set of server channels',
\* and the hashrate is the global summary's, not the workers' sum
C20_Witness ==
  /\ poolData.isJdMode
  /\ poolData.global # Undef /\ poolData.clientChannels # Undef
  /\ poolData.serverChannels # Undef /\ sv1Data # Undef
  /\ Len(poolData.serverChannels.extended_channels) = 2
  /\ bestOfChannels(poolData.serverChannels) = Dbl(0, 5)
  /\ bestDiff = Dbl(1, 0)
  /\ totalHashrate = Dbl(0, 7)
  /\ sv1TotalHashrateOf(allClientsOf(sv1Data)) = Dbl(0, 1)

(***************************************************************************)
(* The brand colour on the root element (SpecCss)                          *)
(***************************************************************************)
\* the variables the claim lists: primary, ring, sidebar, chart, accent
\* surface, accent foreground and primary foreground
BrandVars ==
  {"--primary", "--ring", "--sidebar-primary", "--sidebar-ring", "--chart-1",
   "--accent", "--sidebar-accent",
   "--accent-foreground", "--sidebar-accent-foreground",
   "--primary-foreground", "--sidebar-primary-foreground"}

\* the variables that carry an override on the root element
Overridden == {v \in StyleVars : rootStyle[v] # Undef}

\* the effects have run for a config without a brand colour
BrandCleared == ~cssPending /\ OrUndefined(secondary) = Undef

\* the effects have run for a config with a brand colour
BrandApplied == ~cssPending /\ OrUndefined(secondary) # Undef

\* the variables setProperty was ever called on
EverSet == { p[1] : p \in painted }

\* C22: applyCssVariables with a brand colour sets exactly the listed
\* variables, in the light and in the dark theme, and applyCssVariables
\* without one removes every variable it can set: once the effects have run
\* for a config without a colour no override is left on the root element,
\* whatever colour was applied before and however the theme was switched.
C22_ClearRemovesBrand ==
  /\ EverSet \subseteq BrandVars
  /\ BrandApplied => Overridden = BrandVars /\ EverSet = BrandVars
  /\ BrandCleared => Overridden = {}

\* a colour was applied in the light theme and again in the dark one after a
\* switch of the theme, then it was cleared: every variable was set in both
\* themes and none is left
C22_Witness ==
  /\ BrandCleared
  /\ painted = BrandVars \X BOOLEAN
  /\ observed = Undef
  /\ Overridden = {}

(***************************************************************************)
(* The acceptance rate of the two pages (SpecDash)                         *)
(***************************************************************************)
\* the rate text is a percentage between 0.00 and 100.00
IsPercentage(rate) ==
  /\ rate.whole >= 0 /\ rate.frac >= 0
  /\ rate.whole < 100 \/ (rate.whole = 100 /\ rate.frac = 0)

\* C23: the acceptance rate shown for the shares sent to the pool is between
\* 0% and 100% on both pages: for every set of server channels the accepted
\* total does not exceed the submitted total used as the denominator.
C23_RateWithinBounds ==
  /\ ~jsLess(shareStats.submitted, shareStats.accepted)
  /\ ~jsLess(stats.sharesSubmitted, stats.sharesAccepted)
  /\ IsPercentage(dashboardAcceptanceRate(shareStats))
  /\ IsPercentage(poolStatsAcceptanceRate(stats))

\* C24: for the same channel data UnifiedDashboard and PoolStats derive the
\* same accepted total, the same submitted total and the same acceptance-rate
\* text, without channel data and with zero submitted shares as well.
C24_PagesAgree ==
  /\ shareStats.accepted = stats.sharesAccepted
  /\ shareStats.submitted = stats.sharesSubmitted
  /\ dashboardAcceptanceRate(shareStats) = poolStatsAcceptanceRate(stats)

(***************************************************************************)
(* The pages of the worker table (SpecPager)                               *)
(***************************************************************************)
\* C25: in every reachable state of UnifiedDashboard the current page is
\* between 1 and max(1, totalPages), under any interleaving of Next and
\* Previous clicks, edits of the search term and polls that change the number
\* of workers; so the page shown is never empty while workers match.
C25_PageInRange ==
  LET length == filteredLength(searchTerm, listed, matching)
  IN  /\ 1 <= currentPage
      /\ currentPage <= Max(1, totalPagesOf(length))
      /\ (length > 0 => paginatedLength(length, currentPage) > 0)

====
